---- MODULE Spec2Model ----
(***************************************************************************)
(* Ommiquiz backend: the flashcard document store (filesystem and S3       *)
(* backends), the two-phase ID lookup, the ID/filename reconciliation of   *)
(* the update / upload / delete handlers and the catalog builder.          *)
(*                                                                         *)
(* Strings are TLA+ strings; filenames, IDs and object keys are built and  *)
(* taken apart character by character as the Python code does.             *)
(*                                                                         *)
(* A record lists its fields in the order in which the field names first   *)
(* occur in this module, which is the order TLC keeps them in, so that a   *)
(* record shared by several TLC workers is never rearranged while read.    *)
(***************************************************************************)
EXTENDS Integers, Sequences, FiniteSets, Bags, TLC

VARIABLES
    backend,    \* FLASHCARDS_STORAGE: "local" or "s3" (fixed at construction)
    store,      \* the storage location: path relative to the flashcards
                \* directory / key relative to the S3 prefix  |->  text
    db,         \* rows of the user_flashcards table
    last,       \* the request just served and its response
    calls       \* the calls in progress: worker |-> the request it is
                \* serving where several workers serve requests at once,
                \* the arguments awaiting a function where one is applied

vars == <<backend, store, db, last, calls>>

(***************************************************************************)
(* Strings                                                                 *)
(***************************************************************************)

\* Python's None where a string is expected (no filename or ID of the model
\* contains '<').
None == "<None>"

\* An absent FlashcardDocument (Optional[FlashcardDocument] = None).
NoDoc == [absent |-> TRUE]

\* No request is being served by a worker.
NoCalls == << >>

CharAt(s, i) == SubSeq(s, i, i)

StartsWith(s, p) == Len(s) >= Len(p) /\ SubSeq(s, 1, Len(p)) = p

EndsWith(s, p) == Len(s) >= Len(p) /\ SubSeq(s, Len(s) - Len(p) + 1, Len(s)) = p

RECURSIVE RFindFrom(_, _, _)
RFindFrom(s, c, i) ==
    IF i = 0 THEN 0
    ELSE IF CharAt(s, i) = c THEN i ELSE RFindFrom(s, c, i - 1)

\* str.rfind, 1-based; 0 when c does not occur.
RFind(s, c) == RFindFrom(s, c, Len(s))

\* Path(key).name
PathName(key) == SubSeq(key, RFind(key, "/") + 1, Len(key))

\* Path(name).suffix: from the last dot, unless that dot is the first or the
\* last character of the name.
PathSuffix(name) ==
    LET i == RFind(name, ".")
    IN  IF i > 1 /\ i < Len(name) THEN SubSeq(name, i, Len(name)) ELSE ""

\* Path(name).stem
PathStem(name) == SubSeq(name, 1, Len(name) - Len(PathSuffix(name)))

RECURSIVE LStrip(_)
LStrip(s) == IF Len(s) > 0 /\ CharAt(s, 1) = " " THEN LStrip(Tail(s)) ELSE s

RECURSIVE RStrip(_)
RStrip(s) ==
    IF Len(s) > 0 /\ CharAt(s, Len(s)) = " "
    THEN RStrip(SubSeq(s, 1, Len(s) - 1)) ELSE s

\* str.strip()
Strip(s) == RStrip(LStrip(s))

Lower == {"a", "b", "c", "d", "e", "f", "g", "h", "i", "j", "k", "l", "m",
          "n", "o", "p", "q", "r", "s", "t", "u", "v", "w", "x", "y", "z"}
Upper == {"A", "B", "C", "D", "E", "F", "G", "H", "I", "J", "K", "L", "M",
          "N", "O", "P", "Q", "R", "S", "T", "U", "V", "W", "X", "Y", "Z"}
Digit == {"0", "1", "2", "3", "4", "5", "6", "7", "8", "9"}

\* The character class [a-zA-Z0-9_-].
IdChars == Lower \cup Upper \cup Digit \cup {"_", "-"}

\* VALID_ID_PATTERN.match(s) for r'^[a-zA-Z0-9_-]+$': one or more characters
\* of the class; '$' also matches just before one trailing newline.
VALID_ID_PATTERN(s) ==
    LET body == IF Len(s) > 0 /\ CharAt(s, Len(s)) = "\n"
                THEN SubSeq(s, 1, Len(s) - 1) ELSE s
    IN  Len(body) >= 1 /\ \A i \in 1..Len(body) : CharAt(body, i) \in IdChars

\* Code points of the characters that occur in the keys of the model (the
\* order S3 lists keys in).
Ord(c) ==
    CASE c = "\n" -> 10 [] c = "-" -> 45 [] c = "." -> 46 [] c = "/" -> 47 [] c = "1" -> 49
      [] c = "2" -> 50 [] c = "_" -> 95 [] c = "a" -> 97 [] c = "b" -> 98
      [] c = "c" -> 99 [] c = "d" -> 100 [] c = "e" -> 101 [] c = "f" -> 102
      [] c = "g" -> 103 [] c = "h" -> 104 [] c = "l" -> 108 [] c = "m" -> 109
      [] c = "o" -> 111 [] c = "r" -> 114 [] c = "s" -> 115 [] c = "t" -> 116
      [] c = "u" -> 117 [] c = "y" -> 121 [] OTHER -> 32

RECURSIVE StrLess(_, _)
\* s < t in the byte order of the keys.
StrLess(s, t) ==
    IF Len(t) = 0 THEN FALSE
    ELSE IF Len(s) = 0 THEN TRUE
    ELSE IF CharAt(s, 1) = CharAt(t, 1) THEN StrLess(Tail(s), Tail(t))
    ELSE Ord(CharAt(s, 1)) < Ord(CharAt(t, 1))

(***************************************************************************)
(* YAML texts and values                                                   *)
(*                                                                         *)
(* A text is [norm, v]: v is the value yaml.safe_load gives, norm tells    *)
(* whether the text is byte for byte what yaml.dump writes for v (a text   *)
(* a client sends need not be).  A mapping value is [k |-> "map", m |-> f] *)
(* with f the function from its keys to their values.                      *)
(***************************************************************************)

yaml_safe_load(text) == text.v

yaml_dump(v) == [v |-> v, norm |-> TRUE]

IsMap(v) == v.k = "map"

\* key in data
Has(v, key) == IsMap(v) /\ key \in DOMAIN v.m

\* data.get(key, default)
Get(v, key, default) == IF key \in DOMAIN v.m THEN v.m[key] ELSE default

(***************************************************************************)
(* storage.py: the document store                                          *)
(***************************************************************************)

Put(st, key, text) ==
    [k \in DOMAIN st \cup {key} |-> IF k = key THEN text ELSE st[k]]

Remove(st, key) == [k \in DOMAIN st \ {key} |-> st[k]]

FlashcardDocument(id, filename, content, key) ==
    [key |-> key, id |-> id, filename |-> filename, content |-> content]

\* Local_get_flashcard_path probing <id>.yml before <id>.yaml.
Local_get_flashcard_path_YmlFirst(st, flashcard_id) ==
    IF (flashcard_id \o ".yml") \in DOMAIN st THEN flashcard_id \o ".yml"
    ELSE IF (flashcard_id \o ".yaml") \in DOMAIN st THEN flashcard_id \o ".yaml"
    ELSE None

\* LocalFlashcardStorage._get_flashcard_path: <id>.yaml before <id>.yml.
Local_get_flashcard_path(st, flashcard_id) ==
    IF (flashcard_id \o ".yaml") \in DOMAIN st THEN flashcard_id \o ".yaml"
    ELSE IF (flashcard_id \o ".yml") \in DOMAIN st THEN flashcard_id \o ".yml"
    ELSE None

\* S3FlashcardStorage._find_existing_key: head_object on <id>.yaml, then on
\* <id>.yml.
S3_find_existing_key(st, flashcard_id) ==
    IF (flashcard_id \o ".yaml") \in DOMAIN st THEN flashcard_id \o ".yaml"
    ELSE IF (flashcard_id \o ".yml") \in DOMAIN st THEN flashcard_id \o ".yml"
    ELSE None

\* LocalFlashcardStorage.list_flashcards: glob("*.yaml") then glob("*.yml")
\* in the flashcards directory itself (glob does not descend).
Local_list_flashcards(st) ==
    { FlashcardDocument(PathStem(k), k, st[k], k) :
        k \in { k \in DOMAIN st :
                  RFind(k, "/") = 0 /\ (EndsWith(k, ".yaml") \/ EndsWith(k, ".yml")) } }

\* S3FlashcardStorage.list_flashcards: every key under the prefix that ends
\* with .yaml or .yml; the filename is the last component of the key.
S3_list_flashcards(st) ==
    { FlashcardDocument(PathStem(PathName(k)), PathName(k), st[k], k) :
        k \in { k \in DOMAIN st : EndsWith(k, ".yaml") \/ EndsWith(k, ".yml") } }

list_flashcards(be, st) ==
    IF be = "s3" THEN S3_list_flashcards(st) ELSE Local_list_flashcards(st)

\* d1 is listed before d2.  local: the *.yaml matches come before the *.yml
\* matches, the order inside one glob is the directory's (unspecified);
\* s3: list_objects_v2 returns keys in ascending byte order.
ListedBefore(be, d1, d2) ==
    IF be = "s3" THEN StrLess(d1.key, d2.key)
    ELSE EndsWith(d1.key, ".yaml") /\ EndsWith(d2.key, ".yml")

\* The documents of ds that list_flashcards can return first.
FirstListed(be, ds) == { d \in ds : \A e \in ds : ~ListedBefore(be, e, d) }

Local_get_flashcard(st, flashcard_id) ==
    LET p == Local_get_flashcard_path(st, flashcard_id)
    IN  IF p = None THEN NoDoc
        ELSE FlashcardDocument(flashcard_id, PathName(p), st[p], p)

S3_get_flashcard(st, flashcard_id) ==
    LET key == S3_find_existing_key(st, flashcard_id)
    IN  IF key = None THEN NoDoc
        ELSE FlashcardDocument(flashcard_id, PathName(key), st[key], key)

storage_get_flashcard(be, st, flashcard_id) ==
    IF be = "s3" THEN S3_get_flashcard(st, flashcard_id)
    ELSE Local_get_flashcard(st, flashcard_id)

Local_flashcard_exists(st, flashcard_id) ==
    Local_get_flashcard_path(st, flashcard_id) # None

S3_flashcard_exists(st, flashcard_id) ==
    S3_find_existing_key(st, flashcard_id) # None

flashcard_exists(be, st, flashcard_id) ==
    IF be = "s3" THEN S3_flashcard_exists(st, flashcard_id)
    ELSE Local_flashcard_exists(st, flashcard_id)

\* A storage call's outcome: the exception it raised (None when it
\* returned), the value it returned and the store it leaves.
Outcome(raised, value, st) == [store |-> st, raised |-> raised, value |-> value]

\* Local_save_flashcard without the existence check: every save writes.
Local_save_flashcard_Unchecked(st, filename, content, overwrite) ==
    Outcome(None, FlashcardDocument(PathStem(filename), filename, content, filename),
            Put(st, filename, content))

\* LocalFlashcardStorage.save_flashcard
Local_save_flashcard(st, filename, content, overwrite) ==
    IF filename \in DOMAIN st /\ ~overwrite
    THEN Outcome("FileExistsError", NoDoc, st)
    ELSE Outcome(None, FlashcardDocument(PathStem(filename), filename, content, filename),
                 Put(st, filename, content))

\* S3FlashcardStorage.save_flashcard: head_object unless overwrite, then
\* put_object.
S3_save_flashcard(st, filename, content, overwrite) ==
    IF ~overwrite /\ filename \in DOMAIN st
    THEN Outcome("FileExistsError", NoDoc, st)
    ELSE Outcome(None, FlashcardDocument(PathStem(filename), filename, content, filename),
                 Put(st, filename, content))

save_flashcard(be, st, filename, content, overwrite) ==
    IF be = "s3" THEN S3_save_flashcard(st, filename, content, overwrite)
    ELSE Local_save_flashcard(st, filename, content, overwrite)

\* _get_user_flashcards_dir / _build_user_key: users/<user_id>/<filename>
UserKey(user_id, filename) == "users/" \o user_id \o "/" \o filename

\* LocalFlashcardStorage.save_user_flashcard
Local_save_user_flashcard(st, user_id, filename, content, overwrite) ==
    LET target == UserKey(user_id, filename)
    IN  IF target \in DOMAIN st /\ ~overwrite
        THEN Outcome("FileExistsError", NoDoc, st)
        ELSE Outcome(None, FlashcardDocument(PathStem(filename), filename, content, target),
                     Put(st, target, content))

\* S3FlashcardStorage.save_user_flashcard
S3_save_user_flashcard(st, user_id, filename, content, overwrite) ==
    LET key == UserKey(user_id, filename)
    IN  IF ~overwrite /\ key \in DOMAIN st
        THEN Outcome("FileExistsError", NoDoc, st)
        ELSE Outcome(None, FlashcardDocument(PathStem(filename), filename, content, key),
                     Put(st, key, content))

save_user_flashcard(be, st, user_id, filename, content, overwrite) ==
    IF be = "s3" THEN S3_save_user_flashcard(st, user_id, filename, content, overwrite)
    ELSE Local_save_user_flashcard(st, user_id, filename, content, overwrite)

\* LocalFlashcardStorage.delete_flashcard: unlink each of <id>.yaml and
\* <id>.yml that exists, and report those.
Local_delete_flashcard(st, flashcard_id) ==
    LET yaml == flashcard_id \o ".yaml"
        yml  == flashcard_id \o ".yml"
        deleted == (IF yaml \in DOMAIN st THEN <<yaml>> ELSE <<>>)
                   \o (IF yml \in DOMAIN st THEN <<yml>> ELSE <<>>)
    IN  Outcome(None, deleted, Remove(Remove(st, yaml), yml))

\* S3FlashcardStorage.delete_flashcard: delete_object on both keys; S3's
\* DeleteObject succeeds whether or not the key exists, so both names are
\* appended.
S3_delete_flashcard(st, flashcard_id) ==
    LET yaml == flashcard_id \o ".yaml"
        yml  == flashcard_id \o ".yml"
    IN  Outcome(None, <<PathName(yaml), PathName(yml)>>, Remove(Remove(st, yaml), yml))

delete_flashcard(be, st, flashcard_id) ==
    IF be = "s3" THEN S3_delete_flashcard(st, flashcard_id)
    ELSE Local_delete_flashcard(st, flashcard_id)

\* LocalFlashcardStorage.delete_flashcard_by_filename
Local_delete_flashcard_by_filename(st, filename) ==
    IF filename \in DOMAIN st
    THEN Outcome(None, TRUE, Remove(st, filename))
    ELSE Outcome(None, FALSE, st)

\* S3FlashcardStorage.delete_flashcard_by_filename: delete_object succeeds
\* whether or not the key exists.
S3_delete_flashcard_by_filename(st, filename) ==
    Outcome(None, TRUE, Remove(st, filename))

delete_flashcard_by_filename(be, st, filename) ==
    IF be = "s3" THEN S3_delete_flashcard_by_filename(st, filename)
    ELSE Local_delete_flashcard_by_filename(st, filename)

\* save_catalog: written without an existence check.  (The S3 backend also
\* keeps a scratch copy in the temp directory for the file response.)
save_catalog(be, st, content, catalog_filename) == Put(st, catalog_filename, content)

(***************************************************************************)
(* main.py: lookup                                                         *)
(***************************************************************************)

CATALOG_FILENAME == "flashcards_catalog.yml"

\* storage.is_user_flashcard
is_user_flashcard(flashcard_id) == StartsWith(flashcard_id, "user_")

get_flashcard_document(be, st, flashcard_id) ==
    IF ~VALID_ID_PATTERN(flashcard_id) THEN NoDoc
    ELSE storage_get_flashcard(be, st, flashcard_id)

\* DeclaresId with the scan comparing the filename-derived document.id
\* instead of the id inside the content.
DeclaresId_ByStem(document, flashcard_id) ==
    /\ document.filename # CATALOG_FILENAME
    /\ document.id = flashcard_id

\* The test of the scan's loop body: the document is not the catalog file,
\* its content loads to a truthy value and data.get("id") is the ID sought
\* (a value without .get raises, which the loop catches and skips).
DeclaresId(document, flashcard_id) ==
    LET data == yaml_safe_load(document.content)
    IN  /\ document.filename # CATALOG_FILENAME
        /\ IsMap(data)
        /\ DOMAIN data.m # {}
        /\ Get(data, "id", None) = flashcard_id

\* find_flashcard_filename_by_id: the filename of the first listed document
\* that declares the ID, None when there is none.  The result is the set of
\* the values the scan can return (one value unless the directory order
\* decides between several documents).
find_flashcard_filename_by_id(be, st, flashcard_id) ==
    LET matches == { d \in list_flashcards(be, st) : DeclaresId(d, flashcard_id) }
    IN  IF matches = {} THEN {None}
        ELSE { d.filename : d \in FirstListed(be, matches) }

\* The global branch of get_flashcard (the two-phase lookup): the fast path
\* by filename, else the scan and a second listing searched for the
\* filename the scan returned.  The set of the documents it can end with.
get_by_id(be, st, flashcard_id) ==
    LET document == get_flashcard_document(be, st, flashcard_id)
    IN  IF document # NoDoc THEN {document}
        ELSE UNION { IF filename = None THEN {NoDoc}
                     ELSE FirstListed(be, { doc \in list_flashcards(be, st) :
                                              doc.filename = filename })
                     : filename \in find_flashcard_filename_by_id(be, st, flashcard_id) }

(***************************************************************************)
(* main.py: card IDs and validation                                        *)
(***************************************************************************)

LowerOf(c) ==
    IF c \in Upper
    THEN CharAt("abcdefghijklmnopqrstuvwxyz",
                CHOOSE i \in 1..26 : CharAt("ABCDEFGHIJKLMNOPQRSTUVWXYZ", i) = c)
    ELSE c

RECURSIVE AlnumLower(_)
\* ''.join(c for c in s if c.isalnum()).lower()
AlnumLower(s) ==
    IF Len(s) = 0 THEN ""
    ELSE (IF CharAt(s, 1) \in Lower \cup Upper \cup Digit
          THEN LowerOf(CharAt(s, 1)) ELSE "") \o AlnumLower(Tail(s))

RECURSIVE LJust(_, _, _)
LJust(s, width, fill) == IF Len(s) >= width THEN s ELSE LJust(s \o fill, width, fill)

RECURSIVE ZFill(_, _)
ZFill(s, width) == IF Len(s) >= width THEN s ELSE ZFill("0" \o s, width)

RECURSIVE Str(_)
\* str(n) for n >= 0
Str(n) ==
    IF n < 10 THEN CharAt("0123456789", n + 1)
    ELSE Str(n \div 10) \o CharAt("0123456789", (n % 10) + 1)

\* generate_card_id numbering the cards from 0.
generate_card_id_ZeroBased(cardset_id, card_index) ==
    LET alnum  == AlnumLower(cardset_id)
        prefix == LJust(SubSeq(alnum, 1, IF Len(alnum) < 3 THEN Len(alnum) ELSE 3), 3, "x")
    IN  prefix \o ZFill(Str(card_index), 3)

generate_card_id(cardset_id, card_index) ==
    LET alnum  == AlnumLower(cardset_id)
        prefix == LJust(SubSeq(alnum, 1, IF Len(alnum) < 3 THEN Len(alnum) ELSE 3), 3, "x")
        number == ZFill(Str(card_index + 1), 3)
    IN  prefix \o number

\* ensure_card_ids raises TypeError on its first line ('"flashcards" in
\* data') when data is None or a number.
ensure_card_ids_raises(data) == data.k \in {"null", "int"}

\* ensure_card_ids leaving every card as it is.
ensure_card_ids_Untouched(data) == data

\* ensure_card_ids: every card that is a mapping and has no (truthy) id
\* gets generate_card_id(set id, index).
ensure_card_ids(data) ==
    IF ~Has(data, "flashcards") \/ data.m["flashcards"].k # "list" THEN data
    ELSE LET cardset_id == Get(data, "id", "unknown")
             cards == data.m["flashcards"].items
             fix(i) ==
                 LET card == cards[i]
                 IN  IF ~IsMap(card) THEN card
                     ELSE IF ~Has(card, "id") \/ card.m["id"] = ""
                     THEN [card EXCEPT !.m =
                             [f \in DOMAIN card.m \cup {"id"} |->
                                IF f = "id" THEN generate_card_id(cardset_id, i - 1)
                                ELSE card.m[f]]]
                     ELSE card
         IN  [data EXCEPT !.m["flashcards"] =
                 [k |-> "list", items |-> [i \in 1..Len(cards) |-> fix(i)]]]

required_fields ==
    <<"id", "author", "title", "description", "createDate",
      "language", "topics", "keywords", "flashcards">>

valid_languages == {"en", "de", "fr", "es", "it", "pt", "nl", "ru", "ja", "zh"}

RECURSIVE Concat(_)
Concat(seqs) == IF Len(seqs) = 0 THEN <<>> ELSE Head(seqs) \o Concat(Tail(seqs))

\* CardErrors checking the question of a card and nothing after it.
CardErrors_QuestionOnly(card, i) ==
    IF ~IsMap(card) THEN << <<"card", i, "must be an object">> >>
    ELSE IF ~Has(card, "question") THEN << <<"card", i, "missing question">> >>
    ELSE <<>>

\* The errors validate_flashcard_yaml collects for card i (1-based).  The
\* cards of the model carry no bitmap.
CardErrors(card, i) ==
    IF ~IsMap(card) THEN << <<"card", i, "must be an object">> >>
    ELSE (IF ~Has(card, "question") THEN << <<"card", i, "missing question">> >> ELSE <<>>)
      \o (IF ~Has(card, "type") THEN << <<"card", i, "missing type">> >> ELSE <<>>)
      \o (IF ~Has(card, "type") THEN <<>>
          ELSE IF card.m["type"] = "single"
          THEN (IF ~Has(card, "answer")
                THEN << <<"card", i, "single missing answer">> >> ELSE <<>>)
          ELSE IF card.m["type"] = "multiple"
          THEN (IF ~Has(card, "answers")
                THEN << <<"card", i, "multiple missing answers">> >>
                ELSE IF card.m["answers"].k # "list"
                THEN << <<"card", i, "answers must be a list">> >> ELSE <<>>)
          ELSE << <<"card", i, "invalid type">> >>)

\* validate_flashcard_yaml: [valid, errors, warnings].  A value that is not
\* a mapping contains none of the required keys.
validate_flashcard_yaml(data) ==
    LET missing == Concat([i \in 1..Len(required_fields) |->
                      IF ~Has(data, required_fields[i])
                      THEN << <<"root", 0, "missing " \o required_fields[i]>> >>
                      ELSE <<>>])
        badId == IF Has(data, "id") /\ ~VALID_ID_PATTERN(data.m["id"])
                 THEN << <<"root", 0, "id must be alphanumeric">> >> ELSE <<>>
        langWarn == IF Has(data, "language") /\ data.m["language"] \notin valid_languages
                    THEN << <<"root", 0, "language not in common list">> >> ELSE <<>>
        cardErrs ==
            IF ~Has(data, "flashcards") THEN <<>>
            ELSE IF data.m["flashcards"].k # "list"
            THEN << <<"root", 0, "flashcards must be a list">> >>
            ELSE LET cards == data.m["flashcards"].items
                 IN  Concat([i \in 1..Len(cards) |-> CardErrors(cards[i], i)])
        cardWarn ==
            IF ~Has(data, "flashcards") \/ data.m["flashcards"].k # "list" THEN <<>>
            ELSE LET cards == data.m["flashcards"].items
                 IN  Concat([i \in 1..Len(cards) |->
                        IF IsMap(cards[i]) /\ ~Has(cards[i], "id")
                        THEN << <<"card", i, "missing id">> >> ELSE <<>>])
        errors == missing \o badId \o cardErrs
    IN  [errors |-> errors, valid |-> Len(errors) = 0, warnings |-> langWarn \o cardWarn]

(***************************************************************************)
(* main.py: the catalog builder                                            *)
(***************************************************************************)

\* _extract_flashcard_metadata.  title stands for the fields copied the same
\* way (description, language, level, author, topics, module); the
\* modification time is left out.
extract_flashcard_metadata(document) ==
    LET loaded == yaml_safe_load(document.content)
        fallback == [id |-> document.id, filename |-> document.filename,
                     title |-> document.id, cardcount |-> 0]
    IN  IF loaded.k = "null"
        THEN fallback                       \* 'or {}': every get gives its default
        ELSE IF ~IsMap(loaded) THEN fallback   \* .get raises: the defaults stay
        ELSE LET actual_id == Get(loaded, "id", document.id)
                 cards == Get(loaded, "flashcards", [k |-> "list", items |-> <<>>])
             IN  [id |-> actual_id, filename |-> document.filename,
                  title |-> Get(loaded, "title", actual_id),
                  cardcount |-> IF cards.k = "list" THEN Len(cards.items) ELSE 0]

\* CatalogSources skipping CATALOG_FILENAME only, as the declared-ID scan
\* does.
CatalogSources_OnlyYml(be, st) ==
    { d \in list_flashcards(be, st) : d.filename # CATALOG_FILENAME }

\* The documents collect_flashcard_metadata does not skip.
CatalogSources(be, st) ==
    { d \in list_flashcards(be, st) :
        d.filename \notin {CATALOG_FILENAME, "flashcards_catalog.yaml", "flashcards_catalog.yml"} }

\* collect_flashcard_metadata leaving out the documents whose content does
\* not load to a mapping.
collect_flashcard_metadata_SkipUnparsed(be, st) ==
    LET docs == { d \in CatalogSources(be, st) : IsMap(yaml_safe_load(d.content)) }
    IN  [m \in { extract_flashcard_metadata(d) : d \in docs } |->
            Cardinality({ d \in docs : extract_flashcard_metadata(d) = m })]

\* collect_flashcard_metadata: one record per listed document that is not a
\* catalog file, as a bag (the listing's order is unspecified).
collect_flashcard_metadata(be, st) ==
    LET docs == CatalogSources(be, st)
    IN  [m \in { extract_flashcard_metadata(d) : d \in docs } |->
            Cardinality({ d \in docs : extract_flashcard_metadata(d) = m })]

\* The catalog_data of generate_flashcard_catalog, generated at time now.
CatalogData(be, st, now) ==
    LET flashcard_files == collect_flashcard_metadata(be, st)
    IN  [k |-> "map",
         m |-> [generatedAt |-> now,
                total |-> BagCardinality(flashcard_files),
                sets |-> flashcard_files]]

\* generate_flashcard_catalog appending to the entries already persisted
\* instead of replacing them.
generate_flashcard_catalog_Patching(be, st, now) ==
    LET old == IF CATALOG_FILENAME \in DOMAIN st
               THEN yaml_safe_load(st[CATALOG_FILENAME]).m.sets
               ELSE EmptyBag
        flashcard_files == old (+) collect_flashcard_metadata(be, st)
    IN  save_catalog(be, st,
                     yaml_dump([k |-> "map",
                                m |-> [generatedAt |-> now,
                                       total |-> BagCardinality(flashcard_files),
                                       sets |-> flashcard_files]]),
                     CATALOG_FILENAME)

\* generate_flashcard_catalog: the store after storage.save_catalog.
generate_flashcard_catalog(be, st, now) ==
    save_catalog(be, st, yaml_dump(CatalogData(be, st, now)), CATALOG_FILENAME)

(***************************************************************************)
(* storage.py: per-user documents and user flashcard IDs                   *)
(***************************************************************************)

\* generate_user_flashcard_id: user_<first 8 characters of user_id>_<slug>
generate_user_flashcard_id(user_id, slug) ==
    LET user_prefix == IF Len(user_id) > 8 THEN SubSeq(user_id, 1, 8) ELSE user_id
    IN  "user_" \o user_prefix \o "_" \o slug

\* LocalFlashcardStorage._get_user_flashcard_path
Local_get_user_flashcard_path(st, user_id, flashcard_id) ==
    IF UserKey(user_id, flashcard_id \o ".yaml") \in DOMAIN st
    THEN UserKey(user_id, flashcard_id \o ".yaml")
    ELSE IF UserKey(user_id, flashcard_id \o ".yml") \in DOMAIN st
    THEN UserKey(user_id, flashcard_id \o ".yml")
    ELSE None

\* S3FlashcardStorage._find_user_flashcard_key
S3_find_user_flashcard_key(st, user_id, flashcard_id) ==
    IF UserKey(user_id, flashcard_id \o ".yaml") \in DOMAIN st
    THEN UserKey(user_id, flashcard_id \o ".yaml")
    ELSE IF UserKey(user_id, flashcard_id \o ".yml") \in DOMAIN st
    THEN UserKey(user_id, flashcard_id \o ".yml")
    ELSE None

\* get_user_flashcard of both backends
get_user_flashcard(be, st, user_id, flashcard_id) ==
    LET key == IF be = "s3" THEN S3_find_user_flashcard_key(st, user_id, flashcard_id)
               ELSE Local_get_user_flashcard_path(st, user_id, flashcard_id)
    IN  IF key = None THEN NoDoc
        ELSE FlashcardDocument(flashcard_id, PathName(key), st[key], key)

RECURSIVE SlugChars(_)
\* re.sub(r'[^a-z0-9_-]', '_', title.lower().replace(' ', '_'))
SlugChars(s) ==
    IF Len(s) = 0 THEN ""
    ELSE (LET c == LowerOf(CharAt(s, 1))
          IN  IF c \in Lower \cup Digit \cup {"_", "-"} THEN c ELSE "_")
         \o SlugChars(Tail(s))

RECURSIVE Squeeze(_)
\* re.sub(r'_+', '_', s)
Squeeze(s) ==
    IF Len(s) < 2 THEN s
    ELSE IF CharAt(s, 1) = "_" /\ CharAt(s, 2) = "_" THEN Squeeze(Tail(s))
    ELSE CharAt(s, 1) \o Squeeze(Tail(s))

RECURSIVE StripUnderscores(_)
\* s.strip('_')
StripUnderscores(s) ==
    IF Len(s) > 0 /\ CharAt(s, 1) = "_" THEN StripUnderscores(Tail(s))
    ELSE IF Len(s) > 0 /\ CharAt(s, Len(s)) = "_"
    THEN StripUnderscores(SubSeq(s, 1, Len(s) - 1))
    ELSE s

\* The slug create_user_flashcard derives from a title.
SlugFromTitle(title) == StripUnderscores(Squeeze(SlugChars(title)))

(***************************************************************************)
(* main.py: the request handlers.  Each sets last to the request and its   *)
(* response.                                                               *)
(***************************************************************************)

\* The most documents the requests of a behaviour put into the storage
\* location beside the catalog.
MaxDocs == 2

Respond(request, response, st, rows) ==
    /\ Cardinality(DOMAIN st \ {CATALOG_FILENAME}) <= MaxDocs
    /\ last' = [request |-> request, response |-> response]
    /\ store' = st
    /\ db' = rows
    /\ UNCHANGED <<backend, calls>>

\* GET /flashcards/{flashcard_id}; user is the caller's user_id, None when
\* the request carries no valid token.
get_flashcard(flashcard_id, user) ==
    LET request == [flashcard_id |-> flashcard_id, user |-> user, op |-> "get"]
        Reply(status, document) ==
            Respond(request,
                    [document |-> document,
                     data |-> IF status = 200 THEN yaml_safe_load(document.content)
                              ELSE [k |-> "null"],
                     status |-> status],
                    store, db)
        \* the handler ends with len(data.get("flashcards", [])): a value
        \* that is no mapping raises and the response is a 500
        Parsed(document) ==
            IF IsMap(yaml_safe_load(document.content)) THEN Reply(200, document)
            ELSE Reply(500, document)
    IN  IF is_user_flashcard(flashcard_id)
        THEN LET rows == { r \in db : r.flashcard_id = flashcard_id }
             IN  IF rows = {} THEN Reply(404, NoDoc)
                 ELSE \E flashcard_row \in rows :
                        IF /\ flashcard_row.visibility = "private"
                           /\ (user = None \/ user # flashcard_row.owner_id)
                        THEN Reply(403, NoDoc)
                        ELSE LET document == get_user_flashcard(backend, store,
                                                flashcard_row.owner_id, flashcard_id)
                             IN  IF document = NoDoc THEN Reply(404, NoDoc)
                                 ELSE Parsed(document)
        ELSE \E document \in get_by_id(backend, store, flashcard_id) :
                IF document = NoDoc THEN Reply(404, NoDoc) ELSE Parsed(document)

\* PUT /flashcards/{flashcard_id}; request = [content, filename, old_id]
update_flashcard(flashcard_id, req) ==
    LET request == [flashcard_id |-> flashcard_id, op |-> "update",
                    old_id |-> req.old_id,
                    content_id |-> IF IsMap(yaml_safe_load(req.content))
                                   THEN Get(yaml_safe_load(req.content), "id", None)
                                   ELSE None,
                    content_kind |-> yaml_safe_load(req.content).k]
        Reply(status, detail, filename, st) ==
            Respond(request, [filename |-> filename, status |-> status, detail |-> detail],
                    st, db)
    IN  IF ~VALID_ID_PATTERN(flashcard_id) THEN Reply(400, "InvalidId", None, store)
        ELSE IF yaml_safe_load(req.content).k = "error"
        THEN Reply(400, "InvalidYaml", None, store)
        ELSE IF ensure_card_ids_raises(yaml_safe_load(req.content))
        THEN Reply(500, "TypeError", None, store)
        ELSE
        LET data == ensure_card_ids(yaml_safe_load(req.content))
            validation == validate_flashcard_yaml(data)
        IN  IF ~validation.valid THEN Reply(400, "ValidationFailed", None, store)
            ELSE IF Get(data, "id", None) # flashcard_id
            THEN Reply(400, "IdMismatch", None, store)
            ELSE
            LET rename == req.old_id \notin {None, ""} /\ req.old_id # flashcard_id
            IN  \E found \in find_flashcard_filename_by_id(backend, store,
                                IF rename THEN req.old_id ELSE flashcard_id) :
                  LET \* rename: delete the old file by its actual filename
                      st1 == IF rename /\ found # None
                             THEN delete_flashcard_by_filename(backend, store, found).store
                             ELSE store
                      is_new_document == rename \/ found = None
                      filename ==
                          IF is_new_document
                          THEN (IF Strip(req.filename) # "" THEN Strip(req.filename)
                                ELSE flashcard_id \o ".yml")
                          ELSE found
                      overwrite == ~is_new_document
                      saved == save_flashcard(backend, st1, filename,
                                              yaml_dump(data), overwrite)
                  IN  IF saved.raised = "FileExistsError"
                      THEN Reply(409, "FileExistsError", filename, saved.store)
                      ELSE Reply(200, IF is_new_document THEN "created" ELSE "updated",
                                 saved.value.filename, saved.store)

RECURSIVE LowerStr(_)
LowerStr(s) == IF Len(s) = 0 THEN "" ELSE LowerOf(CharAt(s, 1)) \o LowerStr(Tail(s))

\* POST /flashcards/upload; file = [filename, content], overwrite the form
\* field.  (The texts of the model are below the 1 MB limit.)
upload_flashcard(file, overwrite) ==
    LET request == [filename |-> file.filename,
                    flashcard_id |-> IF IsMap(yaml_safe_load(file.content))
                                     THEN Get(yaml_safe_load(file.content), "id", None)
                                     ELSE None,
                    overwrite |-> overwrite,
                    op |-> "upload",
                    content_kind |-> yaml_safe_load(file.content).k]
        Reply(status, detail, filename, st) ==
            Respond(request, [filename |-> filename, status |-> status, detail |-> detail],
                    st, db)
        loaded == yaml_safe_load(file.content)
    IN  IF ~(EndsWith(file.filename, ".yaml") \/ EndsWith(file.filename, ".yml"))
        THEN Reply(400, "BadExtension", None, store)
        ELSE IF loaded.k = "error" THEN Reply(400, "InvalidYaml", None, store)
        \* logger.info(flashcard_id=data.get("id"), ...) raises on a value
        \* that is no mapping
        ELSE IF ~IsMap(loaded) THEN Reply(500, "AttributeError", None, store)
        ELSE
        LET data == ensure_card_ids(loaded)
            validation == validate_flashcard_yaml(data)
        IN  IF ~validation.valid THEN Reply(400, "ValidationFailed", None, store)
            ELSE
            LET flashcard_id == Get(data, "id", None)
                original_extension ==
                    SubSeq(file.filename, RFind(file.filename, "."), Len(file.filename))
                filename == flashcard_id \o original_extension
                allow_overwrite == LowerStr(overwrite) = "true"
                existing_flashcard == flashcard_exists(backend, store, flashcard_id)
            IN  IF existing_flashcard /\ ~allow_overwrite
                THEN Reply(409, "AlreadyExists", filename, store)
                ELSE LET saved == save_flashcard(backend, store, filename,
                                                 yaml_dump(data), allow_overwrite)
                     IN  IF saved.raised # None
                         THEN Reply(500, saved.raised, filename, saved.store)
                         ELSE Reply(200, IF existing_flashcard THEN "overwritten"
                                         ELSE "created",
                                    filename, saved.store)

\* DELETE /flashcards/{flashcard_id}; now is the time of the catalog
\* regeneration.
delete_flashcard_handler(flashcard_id, now) ==
    LET request == [flashcard_id |-> flashcard_id, op |-> "delete"]
        Reply(status, deleted_files, st) ==
            Respond(request, [status |-> status, deleted_files |-> deleted_files], st, db)
        document == get_flashcard_document(backend, store, flashcard_id)
    IN  \E filename \in IF document = NoDoc
                        THEN find_flashcard_filename_by_id(backend, store, flashcard_id)
                        ELSE {document.filename} :
          IF filename = None THEN Reply(404, <<>>, store)
          ELSE
          LET by_name == /\ filename # flashcard_id \o ".yaml"
                         /\ filename # flashcard_id \o ".yml"
              removed == IF by_name
                         THEN delete_flashcard_by_filename(backend, store, filename)
                         ELSE delete_flashcard(backend, store, flashcard_id)
              deleted_files == IF by_name
                               THEN (IF removed.value THEN <<filename>> ELSE <<>>)
                               ELSE removed.value
          IN  IF deleted_files = <<>> THEN Reply(500, <<>>, removed.store)
              ELSE Reply(200, deleted_files,
                         generate_flashcard_catalog(backend, removed.store, now))

\* get_flashcard_catalog_data answering from the persisted catalog document
\* without regenerating it.
get_flashcard_catalog_data_Cached(now) ==
    Respond([op |-> "catalog_data"],
            [data |-> yaml_safe_load(store[CATALOG_FILENAME]), status |-> 200,
             replaced |-> yaml_safe_load(store[CATALOG_FILENAME])],
            store, db)

\* GET /flashcards/catalog/data.  The response digest also keeps the catalog
\* document that save_catalog overwrote (replaced).
get_flashcard_catalog_data(now) ==
    Respond([op |-> "catalog_data"],
            [data |-> CatalogData(backend, store, now), status |-> 200,
             replaced |-> yaml_safe_load(store[CATALOG_FILENAME])],
            generate_flashcard_catalog(backend, store, now), db)

\* GET /flashcards/catalog: the file generate_flashcard_catalog just wrote
get_flashcard_catalog(now) ==
    Respond([op |-> "catalog"],
            [data |-> CatalogData(backend, store, now), status |-> 200,
             replaced |-> yaml_safe_load(store[CATALOG_FILENAME])],
            generate_flashcard_catalog(backend, store, now), db)

\* POST /users/me/flashcards by the authenticated user user_id;
\* request = [yaml_content, visibility]
\* insert_fails: the INSERT into user_flashcards raises, which the handler
\* answers with a 500 after the document has been saved.
create_user_flashcard_insert(user_id, req, insert_fails) ==
    LET request == [user |-> user_id, op |-> "create_user",
                    visibility |-> req.visibility]
        Reply(status, flashcard_id, st, rows) ==
            Respond(request, [flashcard_id |-> flashcard_id, status |-> status], st, rows)
        flashcard_data == yaml_safe_load(req.yaml_content)
    IN  IF req.visibility \notin {"global", "private"} THEN Reply(400, None, store, db)
        ELSE IF flashcard_data.k = "error" THEN Reply(400, None, store, db)
        ELSE IF ~IsMap(flashcard_data) \/ DOMAIN flashcard_data.m = {}
        THEN Reply(400, None, store, db)
        ELSE
        LET slug == IF Has(flashcard_data, "id") THEN flashcard_data.m["id"]
                    ELSE SlugFromTitle(Get(flashcard_data, "title", "Untitled"))
            flashcard_id == generate_user_flashcard_id(user_id, slug)
            filename == flashcard_id \o ".yaml"
        IN  IF \E r \in db : r.flashcard_id = flashcard_id
            THEN Reply(409, flashcard_id, store, db)
            ELSE LET saved == save_user_flashcard(backend, store, user_id, filename,
                                                  req.yaml_content, FALSE)
                 IN  IF saved.raised = "FileExistsError"
                     THEN Reply(409, flashcard_id, saved.store, db)
                     ELSE IF insert_fails
                     THEN Reply(500, flashcard_id, saved.store, db)
                     ELSE Reply(200, flashcard_id, saved.store,
                                db \cup {[flashcard_id |-> flashcard_id,
                                          visibility |-> req.visibility,
                                          owner_id |-> user_id]})

create_user_flashcard(user_id, req) == create_user_flashcard_insert(user_id, req, FALSE)

(***************************************************************************)
(* The requests of the model                                               *)
(***************************************************************************)

Ids == {"a", "b"}

Questions == {"q1", "q2"}

Users == {"u1"}

List(items) == [k |-> "list", items |-> items]

\* A single-choice card without an id.
Card(question) ==
    [k |-> "map", m |-> [question |-> question, type |-> "single", answer |-> "x"]]

\* A flashcard set with every required field and one card.
SetValue(id, question) ==
    [k |-> "map",
     m |-> [id |-> id, title |-> "Title " \o id, author |-> "au", description |-> "d",
            createDate |-> "2024-01-01", language |-> "en", topics |-> List(<<>>),
            keywords |-> List(<<>>), flashcards |-> List(<<Card(question)>>)]]

\* The text a client sends for it (not in yaml.dump's layout).
ClientText(id, question) == [v |-> SetValue(id, question), norm |-> FALSE]

\* A set without its author, which validation rejects.
InvalidText ==
    [v |-> [k |-> "map", m |-> [id |-> "a", title |-> "Title a",
                                flashcards |-> List(<<>>)]],
     norm |-> FALSE]

SetTexts == { ClientText("a", q) : q \in Questions } \cup {ClientText("b", "q1")}

UpdateFilenames == {"", "a.yml", "a b.yml"}

OldIds == {None} \cup Ids

Stamps == {"T1"}

EmptyStore == [k \in {} |-> NoDoc]

(***************************************************************************)
(* The service: construction and startup, then any request                 *)
(***************************************************************************)

\* get_flashcard_storage picks the backend; startup_event generates the
\* catalog of the (here empty) storage location.
Init ==
    /\ backend \in {"local", "s3"}
    /\ \E now \in Stamps : store = generate_flashcard_catalog(backend, EmptyStore, now)
    /\ db = {}
    /\ last = [request |-> [op |-> "startup"], response |-> [status |-> 200]]
    /\ calls = NoCalls

GetFlashcard ==
    \E flashcard_id \in Ids \cup {generate_user_flashcard_id(u, "a") : u \in Users} :
        get_flashcard(flashcard_id, None)

\* The update requests: the content's id is the path ID, but for one
\* request with a mismatch and one that fails validation; one request
\* names a file whose stem is no valid ID.
UpdateFlashcardOver(texts, filenames) ==
    \E content \in texts \cup {InvalidText}, flashcard_id \in Ids,
       filename \in filenames, old_id \in OldIds :
        /\ \/ flashcard_id = content.v.m["id"] /\ content # InvalidText
           \/ filename = "" /\ old_id = None /\ content \in {InvalidText, ClientText("a", "q1")}
        /\ filename = "a b.yml" => old_id = None /\ content = ClientText("a", "q1")
        /\ update_flashcard(flashcard_id,
                            [filename |-> filename, content |-> content, old_id |-> old_id])

UpdateFlashcard == UpdateFlashcardOver(SetTexts, UpdateFilenames)

UploadFlashcardOver(texts) ==
    \E filename \in {"up.yaml", "up.yml"}, content \in texts,
       overwrite \in {"false", "true"} :
        upload_flashcard([filename |-> filename, content |-> content], overwrite)

UploadFlashcard == UploadFlashcardOver(SetTexts)

DeleteFlashcardAt(stamps) ==
    \E flashcard_id \in Ids, now \in stamps : delete_flashcard_handler(flashcard_id, now)

DeleteFlashcard == DeleteFlashcardAt(Stamps)

CreateUserFlashcard ==
    \E user_id \in Users :
        create_user_flashcard(user_id, [visibility |-> "private",
                                        yaml_content |-> ClientText("a", "q1")])

Next ==
    \/ GetFlashcard
    \/ UpdateFlashcard
    \/ UploadFlashcard
    \/ DeleteFlashcard
    \/ CreateUserFlashcard

Spec == Init /\ [][Next]_vars

(***************************************************************************)
(* The service with its catalog endpoints: mutations of the global         *)
(* namespace interleaved with catalog reads at different times.            *)
(***************************************************************************)

CatalogTexts == {ClientText("a", "q1"), ClientText("b", "q1")}

\* Some requests name their file like the catalog in its .yaml form.
CatalogFilenames == {"a.yml", "flashcards_catalog.yaml"}

CatalogStamps == {"T1", "T2"}

GetCatalogData == \E now \in CatalogStamps : get_flashcard_catalog_data(now)

GetCatalog == \E now \in CatalogStamps : get_flashcard_catalog(now)

CatalogNext ==
    \/ UpdateFlashcardOver(CatalogTexts, CatalogFilenames)
    \/ UploadFlashcardOver(CatalogTexts)
    \/ DeleteFlashcardAt(CatalogStamps)
    \/ GetCatalogData
    \/ GetCatalog

SpecCatalog == Init /\ [][CatalogNext]_vars

(***************************************************************************)
(* The catalog builder over a storage location that holds files when the   *)
(* service starts, some of them no flashcard sets.                         *)
(***************************************************************************)

\* Texts that do not load to a mapping: an empty document, a list, a
\* number, and a text that is no YAML.
NullText == [v |-> [k |-> "null"], norm |-> FALSE]

ListText == [v |-> List(<<Card("q1")>>), norm |-> FALSE]

IntText == [v |-> [k |-> "int"], norm |-> FALSE]

ErrorText == [v |-> [k |-> "error"], norm |-> FALSE]

BuildTexts == {ClientText("a", "q1"), ClientText("b", "q1"),
               NullText, ListText, IntText, ErrorText}

BuildFilenames == {"a.yml", "b.yaml", "flashcards_catalog.yaml"}

\* startup_event over a location with at most MaxDocs files
BuildInit ==
    /\ backend \in {"local", "s3"}
    /\ \E names \in SUBSET BuildFilenames :
         /\ Cardinality(names) <= MaxDocs
         /\ \E files \in [names -> BuildTexts], now \in Stamps :
               store = generate_flashcard_catalog(backend, files, now)
    /\ db = {}
    /\ last = [request |-> [op |-> "startup"], response |-> [status |-> 200]]
    /\ calls = NoCalls

BuildNext ==
    \/ GetCatalogData
    \/ GetCatalog

SpecBuild == BuildInit /\ [][BuildNext]_vars

(***************************************************************************)
(* The update and upload endpoints with path IDs and contents of every     *)
(* shape.                                                                  *)
(***************************************************************************)

\* Path IDs: two plain ones, one that ends with a newline (PUT .../a%0A)
\* and one with a space.
GateIds == {"a", "b", "a\n", "a b"}

GateTexts == { ClientText(id, "q1") : id \in GateIds }
                \cup {InvalidText, NullText, ListText, IntText, ErrorText}

UpdateAnyId ==
    \E flashcard_id \in GateIds, content \in GateTexts, old_id \in {None, "a"} :
        update_flashcard(flashcard_id,
                         [filename |-> "", content |-> content, old_id |-> old_id])

GateUploadTexts == {ClientText("a", "q1"), NullText, ListText, IntText}

UploadAny == UploadFlashcardOver(GateUploadTexts)

GateNext ==
    \/ UpdateAnyId
    \/ UploadAny
    \/ DeleteFlashcard

SpecGate == Init /\ [][GateNext]_vars

(***************************************************************************)
(* The document store on its own: any sequence of calls of its methods,    *)
(* from an empty storage location.  last holds the call and its outcome.   *)
(***************************************************************************)

StoreFilenames == {"a.yaml", "a.yml", "b.yml"}

StoreTexts == {ClientText("a", "q1"), ClientText("b", "q1")}

\* storage = get_flashcard_storage() over an empty location
StoreInit ==
    /\ backend \in {"local", "s3"}
    /\ store = EmptyStore
    /\ db = {}
    /\ last = [request |-> [op |-> "construct"], response |-> [raised |-> None]]
    /\ calls = NoCalls

StoreCall(request, outcome) ==
    /\ last' = [request |-> request,
                response |-> [raised |-> outcome.raised, value |-> outcome.value]]
    /\ store' = outcome.store
    /\ UNCHANGED <<backend, db, calls>>

\* storage.save_flashcard(filename, content, overwrite)
StoreSave ==
    \E filename \in StoreFilenames, content \in StoreTexts, overwrite \in BOOLEAN :
        StoreCall([filename |-> filename, content |-> content, overwrite |-> overwrite,
                   user |-> None, op |-> "save"],
                  save_flashcard(backend, store, filename, content, overwrite))

\* storage.save_user_flashcard(user_id, filename, content, overwrite)
StoreSaveUser ==
    \E user_id \in Users, content \in StoreTexts, overwrite \in BOOLEAN :
        StoreCall([filename |-> "a.yaml", content |-> content, overwrite |-> overwrite,
                   user |-> user_id, op |-> "save"],
                  save_user_flashcard(backend, store, user_id, "a.yaml", content,
                                      overwrite))

\* storage.delete_flashcard(flashcard_id)
StoreDelete ==
    \E flashcard_id \in Ids :
        StoreCall([flashcard_id |-> flashcard_id, op |-> "delete"],
                  delete_flashcard(backend, store, flashcard_id))

\* storage.delete_flashcard_by_filename(filename)
StoreDeleteByFilename ==
    \E filename \in StoreFilenames :
        StoreCall([filename |-> filename, op |-> "delete_by_filename"],
                  delete_flashcard_by_filename(backend, store, filename))

\* storage.get_flashcard(flashcard_id)
StoreGet ==
    \E flashcard_id \in Ids :
        StoreCall([flashcard_id |-> flashcard_id, op |-> "get"],
                  Outcome(None, storage_get_flashcard(backend, store, flashcard_id),
                          store))

\* storage.flashcard_exists(flashcard_id)
StoreExists ==
    \E flashcard_id \in Ids :
        StoreCall([flashcard_id |-> flashcard_id, op |-> "exists"],
                  Outcome(None, flashcard_exists(backend, store, flashcard_id), store))

StoreNext ==
    \/ StoreSave
    \/ StoreSaveUser
    \/ StoreDelete
    \/ StoreDeleteByFilename
    \/ StoreGet
    \/ StoreExists

SpecStore == StoreInit /\ [][StoreNext]_vars

(***************************************************************************)
(* Vocabulary of the properties                                            *)
(***************************************************************************)

\* The documents of the global namespace: the listed entries that lie in
\* the storage location itself, not under users/<user_id>/.
GlobalDocs(be, st) == { d \in list_flashcards(be, st) : RFind(d.key, "/") = 0 }

\* The id a document's content declares, None when it declares none.
DeclaredId(d) ==
    LET data == yaml_safe_load(d.content)
    IN  IF Has(data, "id") THEN data.m["id"] ELSE None

\* No other listed document has declared_id as its filename stem or as its
\* declared ID.
IdUnusedElsewhere(be, st, d, declared_id) ==
    \A e \in list_flashcards(be, st) \ {d} :
        e.id # declared_id /\ DeclaredId(e) # declared_id

(***************************************************************************)
(* C1  Two-phase lookup.                                                   *)
(***************************************************************************)

\* C1 as stated: for every document of the global namespace whose filename
\* stem differs from its declared ID, and whose declared ID is neither the
\* stem nor the declared ID of another document, get_by_id(declared ID) and
\* get_by_id(stem) both return that document.
C1_AsStated ==
    \A d \in GlobalDocs(backend, store) :
        (/\ DeclaredId(d) # None
         /\ d.id # DeclaredId(d)
         /\ IdUnusedElsewhere(backend, store, d, DeclaredId(d)))
        => /\ get_by_id(backend, store, DeclaredId(d)) = {d}
           /\ get_by_id(backend, store, d.id) = {d}

\* C1 amended: the same, for a document that no <stem>.yaml beside it
\* shadows in the fast path and whose stem is a valid ID.
C1_TwoPhaseLookup ==
    \A d \in GlobalDocs(backend, store) :
        (/\ DeclaredId(d) # None
         /\ d.id # DeclaredId(d)
         /\ IdUnusedElsewhere(backend, store, d, DeclaredId(d))
         /\ ~(EndsWith(d.key, ".yml") /\ (d.id \o ".yaml") \in DOMAIN store)
         /\ VALID_ID_PATTERN(d.id))
        => /\ get_by_id(backend, store, DeclaredId(d)) = {d}
           /\ get_by_id(backend, store, d.id) = {d}

\* C1 witness: a GET by declared ID has just been answered, through the
\* fallback scan, with a document whose filename stem is another ID.
C1_Witness ==
    /\ last.request.op = "get"
    /\ last.response.status = 200
    /\ last.response.document \in GlobalDocs(backend, store)
    /\ last.response.document.id # last.request.flashcard_id
    /\ DeclaredId(last.response.document) = last.request.flashcard_id
    /\ get_by_id(backend, store, last.response.document.id) = {last.response.document}

(***************************************************************************)
(* C2  Create-vs-update disambiguation.                                    *)
(***************************************************************************)

\* The step is a PUT without rename whose content the handler accepted
\* (valid ID, valid YAML, valid set, matching id).
UpdateWithoutRename ==
    /\ last'.request.op = "update"
    /\ last'.request.old_id \in {None, "", last'.request.flashcard_id}
    /\ last'.response.detail \notin
          {"InvalidId", "InvalidYaml", "TypeError", "ValidationFailed", "IdMismatch"}

\* The documents the two-phase lookup resolves the step's ID to, before
\* the step.
ResolvedBefore == get_by_id(backend, store, last'.request.flashcard_id) \ {NoDoc}

\* C2 as stated: a PUT without rename whose ID the two-phase lookup resolves
\* to an existing document writes to that document's filename, the set of
\* files does not grow and no second file for the ID is created.
C2_AsStated ==
    [][ (UpdateWithoutRename /\ ResolvedBefore # {})
        => /\ last'.response.status = 200
           /\ last'.response.detail = "updated"
           /\ \E d \in ResolvedBefore : last'.response.filename = d.filename
           /\ DOMAIN store' = DOMAIN store ]_vars

(***************************************************************************)
(* C3  Creating a set whose ID is present is rejected.                     *)
(***************************************************************************)

\* The step is an attempt to create: an upload without overwrite=true, or a
\* PUT without rename that took the handler's create branch; in both cases
\* with content the handler accepted.
CreateAttempt ==
    \/ /\ last'.request.op = "upload"
       /\ LowerStr(last'.request.overwrite) # "true"
       /\ last'.response.detail \notin
             {"BadExtension", "InvalidYaml", "AttributeError", "ValidationFailed"}
    \/ /\ UpdateWithoutRename
       /\ last'.response.detail \in {"created", "FileExistsError"}

\* C3 as stated: an attempt to create a set whose ID get_by_id resolves to a
\* document of the global namespace is answered 409 and leaves the store as
\* it was, filenames and contents.
C3_AsStated ==
    [][ (/\ CreateAttempt
         /\ get_by_id(backend, store, last'.request.flashcard_id)
               \cap GlobalDocs(backend, store) # {})
        => /\ last'.response.status = 409
           /\ store' = store ]_vars

(***************************************************************************)
(* C4  The save contract of the document store.                            *)
(***************************************************************************)

\* The entry a save call names: filename in the global namespace, or in the
\* namespace of the call's user.
SaveTarget(request) ==
    IF request.user = None THEN request.filename
    ELSE UserKey(request.user, request.filename)

\* The same save again, with overwrite=true, on the store st.
SaveAgain(request, st) ==
    IF request.user = None
    THEN save_flashcard(backend, st, request.filename, request.content, TRUE)
    ELSE save_user_flashcard(backend, st, request.user, request.filename,
                             request.content, TRUE)

\* C4: a save (global or per-user, either backend) of an existing entry
\* without overwrite raises FileExistsError and changes no entry; any other
\* save leaves the entry holding exactly the content given and every other
\* entry as it was, and the same save repeated with overwrite=true changes
\* nothing.
C4_SaveContract ==
    [][ last'.request.op = "save" =>
          LET request == last'.request
              target == SaveTarget(request)
          IN  IF target \in DOMAIN store /\ ~request.overwrite
              THEN /\ last'.response.raised = "FileExistsError"
                   /\ store' = store
              ELSE /\ last'.response.raised = None
                   /\ DOMAIN store' = DOMAIN store \cup {target}
                   /\ store'[target] = request.content
                   /\ \A k \in DOMAIN store \ {target} : store'[k] = store[k]
                   /\ last'.response.value.filename = request.filename
                   /\ last'.response.value.content = request.content
                   /\ SaveAgain(request, store').raised = None
                   /\ SaveAgain(request, store').store = store' ]_vars

\* C4 witness: a save without overwrite of an existing entry has just been
\* refused with FileExistsError; the entry still holds its other content and
\* a second entry lies beside it.
C4_Witness ==
    /\ last.request.op = "save"
    /\ ~last.request.overwrite
    /\ last.response.raised = "FileExistsError"
    /\ SaveTarget(last.request) \in DOMAIN store
    /\ store[SaveTarget(last.request)] # last.request.content
    /\ Cardinality(DOMAIN store) >= 2

(***************************************************************************)
(* C5  The delete contract of the document store.                          *)
(***************************************************************************)

\* The entries <id>.yaml and <id>.yml that exist in st.
ExistingNames(st, flashcard_id) ==
    {flashcard_id \o ".yaml", flashcard_id \o ".yml"} \cap DOMAIN st

\* C5 as stated: delete(id), on either backend, removes <id>.yaml and
\* <id>.yml, returns exactly the names that existed (none, one or both) and
\* touches no other entry.
C5_AsStated ==
    [][ last'.request.op = "delete" =>
          LET existed == ExistingNames(store, last'.request.flashcard_id)
              deleted == last'.response.value
          IN  /\ Len(deleted) = Cardinality(existed)
              /\ { deleted[i] : i \in 1..Len(deleted) } = existed
              /\ DOMAIN store' = DOMAIN store \ existed
              /\ \A k \in DOMAIN store' : store'[k] = store[k] ]_vars

(***************************************************************************)
(* C6  get and exists probe <id>.yaml before <id>.yml.                     *)
(***************************************************************************)

\* C6: get(id) has returned the <id>.yaml entry when it exists, else the
\* <id>.yml entry when that exists, else nothing; exists(id) has returned
\* true exactly when an entry with the filename stem id exists, whatever ID
\* the contents declare.
C6_ProbeOrder ==
    /\ last.request.op = "get" =>
          LET id == last.request.flashcard_id
              document == last.response.value
          IN  IF (id \o ".yaml") \in DOMAIN store
              THEN /\ document # NoDoc
                   /\ document.id = id
                   /\ document.filename = id \o ".yaml"
                   /\ document.content = store[id \o ".yaml"]
              ELSE IF (id \o ".yml") \in DOMAIN store
              THEN /\ document # NoDoc
                   /\ document.id = id
                   /\ document.filename = id \o ".yml"
                   /\ document.content = store[id \o ".yml"]
              ELSE document = NoDoc
    /\ last.request.op = "exists" =>
          (last.response.value
             <=> \E d \in GlobalDocs(backend, store) : d.id = last.request.flashcard_id)

\* C6 witness: get(id) has just returned the .yaml entry while an .yml entry
\* of the same stem, with another content, exists; the content returned
\* declares another ID than the one asked for.
C6_Witness ==
    /\ last.request.op = "get"
    /\ last.response.value # NoDoc
    /\ last.response.value.filename = last.request.flashcard_id \o ".yaml"
    /\ (last.request.flashcard_id \o ".yml") \in DOMAIN store
    /\ store[last.request.flashcard_id \o ".yml"] # last.response.value.content
    /\ DeclaredId(last.response.value) # last.request.flashcard_id

(***************************************************************************)
(* C7  Catalog regeneration after every mutation.                          *)
(***************************************************************************)

\* The flashcard documents of the global namespace: those not named like
\* the catalog.
GlobalSets(be, st) ==
    { d \in GlobalDocs(be, st) :
        d.filename \notin {"flashcards_catalog.yaml", "flashcards_catalog.yml"} }

\* The entries of the catalog document persisted in st.
PersistedSets(st) == yaml_safe_load(st[CATALOG_FILENAME]).m.sets

\* The metadata of the documents of ds, as a bag.
MetadataOf(ds) ==
    [m \in { extract_flashcard_metadata(d) : d \in ds } |->
        Cardinality({ d \in ds : extract_flashcard_metadata(d) = m })]

\* C7 as stated: when a create, update, rename, upload or delete of a global
\* flashcard has just succeeded, the persisted catalog lists exactly the
\* flashcard sets of the global namespace.
C7_AsStated ==
    (last.request.op \in {"update", "upload", "delete"} /\ last.response.status = 200)
    => PersistedSets(store) = MetadataOf(GlobalSets(backend, store))

(***************************************************************************)
(* C8  A catalog read always regenerates.                                  *)
(***************************************************************************)

\* The last request was a read of the catalog.
CatalogRead == last.request.op \in {"catalog_data", "catalog"}

\* C8: the catalog a catalog read has returned, whatever mutations came
\* before it, has an entry for every flashcard document now in the global
\* namespace, has no entry without a document now in the storage location,
\* and is the catalog now persisted.
C8_ReadRegenerates ==
    CatalogRead =>
        LET data == last.response.data.m
        IN  /\ \A d \in GlobalSets(backend, store) :
                  BagIn(extract_flashcard_metadata(d), data.sets)
            /\ \A m \in BagToSet(data.sets) :
                  \E d \in list_flashcards(backend, store) :
                      d.filename = m.filename /\ extract_flashcard_metadata(d) = m
            /\ data.total = BagCardinality(data.sets)
            /\ yaml_safe_load(store[CATALOG_FILENAME]) = last.response.data

\* C8 witness: a catalog read has just returned a catalog with an entry
\* whose declared ID is not the filename stem, beside a second document.
C8_Witness ==
    /\ last.request.op = "catalog_data"
    /\ last.response.data.m.total = 2
    /\ \E d \in GlobalSets(backend, store) :
          /\ DeclaredId(d) # d.id
          /\ BagIn(extract_flashcard_metadata(d), last.response.data.m.sets)

(***************************************************************************)
(* C9  Catalog regeneration is idempotent.                                 *)
(***************************************************************************)

\* The last request ended with generate_flashcard_catalog.
GeneratedLast ==
    \/ last.request.op \in {"startup", "catalog_data", "catalog"}
    \/ last.request.op = "delete" /\ last.response.status = 200

\* C9: a catalog read that follows a request ending with a regeneration,
\* with no mutation between the two, yields the same total and the same
\* entries as the catalog persisted before it, leaves every other document
\* as it was and replaces the persisted catalog by the one it returns.
C9_Idempotent ==
    [][ (GeneratedLast /\ last'.request.op \in {"catalog_data", "catalog"}) =>
          LET before == yaml_safe_load(store[CATALOG_FILENAME]).m
              after == last'.response.data.m
          IN  /\ after.total = before.total
              /\ after.sets = before.sets
              /\ DOMAIN store' = DOMAIN store
              /\ \A k \in DOMAIN store \ {CATALOG_FILENAME} : store'[k] = store[k]
              /\ store'[CATALOG_FILENAME] = yaml_dump(last'.response.data) ]_vars

\* C9 witness: a catalog read has regenerated a catalog of two entries over
\* a persisted catalog that listed the same two entries, generated at
\* another time.
C9_Witness ==
    /\ last.request.op = "catalog"
    /\ last.response.data.m.total = 2
    /\ last.response.replaced.m.sets = last.response.data.m.sets
    /\ last.response.replaced.m.total = 2
    /\ last.response.replaced.m.generatedAt # last.response.data.m.generatedAt
    /\ store[CATALOG_FILENAME] = yaml_dump(last.response.data)

(***************************************************************************)
(* C10  The catalog does not list itself.                                  *)
(***************************************************************************)

\* No entry of the bag sets has a catalog filename.
NoCatalogEntry(sets) ==
    \A m \in BagToSet(sets) :
        m.filename \notin {"flashcards_catalog.yaml", "flashcards_catalog.yml"}

\* C10: neither the persisted catalog nor a catalog just returned has an
\* entry named flashcards_catalog.yaml or flashcards_catalog.yml, whichever
\* of the two files exist.
C10_SelfExclusion ==
    /\ NoCatalogEntry(PersistedSets(store))
    /\ CatalogRead => NoCatalogEntry(last.response.data.m.sets)

\* C10 witness: a catalog with an entry has just been generated while both
\* flashcards_catalog.yml and flashcards_catalog.yaml exist.
C10_Witness ==
    /\ CatalogRead
    /\ {"flashcards_catalog.yaml", "flashcards_catalog.yml"} \subseteq DOMAIN store
    /\ last.response.data.m.total >= 1

(***************************************************************************)
(* C11  One catalog entry per document, degraded when it does not parse.   *)
(***************************************************************************)

\* The entry m of a catalog is the entry of the document d.
EntryOf(m, d) ==
    /\ m.filename = d.filename
    /\ ~IsMap(yaml_safe_load(d.content))
         => m.id = d.id /\ m.title = d.id /\ m.cardcount = 0

\* C11: a generated catalog has one entry per listed document that is not
\* named like the catalog and no other entry, total is the number of
\* entries, and the entry of a document whose content does not parse as a
\* mapping has the filename stem as id and title and cardcount 0.
C11_OneEntryPerDocument ==
    CatalogRead =>
        LET data == last.response.data.m
            sources == { d \in list_flashcards(backend, store) :
                           d.filename \notin {"flashcards_catalog.yaml",
                                              "flashcards_catalog.yml"} }
        IN  /\ \A d \in sources : \E m \in BagToSet(data.sets) : EntryOf(m, d)
            /\ \A m \in BagToSet(data.sets) :
                  /\ CopiesIn(m, data.sets) = 1
                  /\ \E d \in sources : EntryOf(m, d)
            /\ BagCardinality(data.sets) = Cardinality(sources)
            /\ data.total = BagCardinality(data.sets)

\* C11 witness: a catalog of two entries has been generated over a document
\* that is no YAML and a document that loads to a list.
C11_Witness ==
    /\ CatalogRead
    /\ last.response.data.m.total = 2
    /\ \E d \in list_flashcards(backend, store) :
          yaml_safe_load(d.content).k = "error"
    /\ \E d \in list_flashcards(backend, store) :
          yaml_safe_load(d.content).k = "list"

(***************************************************************************)
(* C12  The ID gate of the update flow.                                    *)
(***************************************************************************)

\* s consists of one or more of the characters A-Z a-z 0-9 _ - and nothing
\* else.
OnlyIdChars(s) == Len(s) >= 1 /\ \A i \in 1..Len(s) : CharAt(s, i) \in IdChars

\* C12 as stated: an update whose path ID is not made of the characters
\* A-Z a-z 0-9 _ - is answered InvalidId, and one whose content declares
\* another id than the path ID is rejected; in both cases the store is left
\* as it was (nothing written, the renamed-from document not deleted).
C12_AsStated ==
    [][ last'.request.op = "update" =>
          /\ ~OnlyIdChars(last'.request.flashcard_id)
               => /\ last'.response.status = 400
                  /\ last'.response.detail = "InvalidId"
                  /\ store' = store
          /\ last'.request.content_id # last'.request.flashcard_id
               => /\ last'.response.status # 200
                  /\ store' = store ]_vars

(***************************************************************************)
(* C13  Content that is no mapping is rejected as a structured result.     *)
(***************************************************************************)

\* C13 as stated: an update or upload whose content is valid YAML but no
\* mapping (an empty document, a scalar, a list) is answered with a 400
\* result, not with an unhandled exception (500), and writes nothing.
C13_AsStated ==
    [][ (/\ last'.request.op \in {"update", "upload"}
         /\ last'.request.content_kind \in {"null", "int", "list"}
         /\ last'.request.op = "update" => OnlyIdChars(last'.request.flashcard_id))
        => /\ last'.response.status = 400
           /\ store' = store ]_vars

(***************************************************************************)
(* C14  Rename removes the old document.                                   *)
(***************************************************************************)

\* The step is a PUT that names a previous ID other than the path ID, which
\* the two-phase lookup resolved to a document, and succeeded.
RenameSucceeded ==
    /\ last'.request.op = "update"
    /\ last'.request.old_id \notin {None, "", last'.request.flashcard_id}
    /\ get_by_id(backend, store, last'.request.old_id) # {NoDoc}
    /\ last'.response.status = 200

\* C14 as stated: after a successful rename, get_by_id(previous ID) no
\* longer returns the document the two-phase lookup resolved the previous
\* ID to, and get_by_id(new ID) returns the document just written.
C14_AsStated ==
    [][ RenameSucceeded =>
          /\ \A d \in get_by_id(backend, store, last'.request.old_id) \ {NoDoc} :
                d \notin get_by_id(backend, store', last'.request.old_id)
          /\ \E d \in get_by_id(backend, store', last'.request.flashcard_id) \ {NoDoc} :
                /\ d.filename = last'.response.filename
                /\ DeclaredId(d) = last'.request.flashcard_id ]_vars

(***************************************************************************)
(* C15  The delete flow reports what it removed.                           *)
(***************************************************************************)

\* C15 as stated: a DELETE whose ID resolves in neither lookup phase is
\* answered 404 with the store unchanged; otherwise it is answered 200 only
\* when a file was removed, deleted_files are then exactly the files that
\* existed before and are gone after, and removing nothing is answered 500.
C15_AsStated ==
    [][ last'.request.op = "delete" =>
          LET resolved == get_by_id(backend, store, last'.request.flashcard_id) \ {NoDoc}
              removed == DOMAIN store \ DOMAIN store'
              deleted_files == last'.response.deleted_files
          IN  IF resolved = {}
              THEN last'.response.status = 404 /\ store' = store
              ELSE /\ last'.response.status \in {200, 500}
                   /\ last'.response.status = 200
                        => /\ removed # {}
                           /\ { deleted_files[i] : i \in 1..Len(deleted_files) } = removed
                           /\ Len(deleted_files) = Cardinality(removed)
                   /\ removed = {} => last'.response.status = 500 ]_vars


(***************************************************************************)
(* Several workers serving update requests on one storage location         *)
(*                                                                         *)
(* Nothing in the service serialises the workers that share a flashcards   *)
(* directory or a bucket.  A worker's request is three steps on the        *)
(* shared store: the handler up to its lookup, the existence test of       *)
(* save_flashcard, and the write of save_flashcard.                        *)
(***************************************************************************)

Workers == {"w1", "w2"}

Idle == [pc |-> "idle"]

RaceTexts == { ClientText("a", q) : q \in Questions } \cup {ClientText("b", "q1")}

RaceFilenames == {"", "a.yml"}

\* No request of the workers is a rename, so no file is ever removed.
RaceOldIds == {None, ""}

RaceInit ==
    /\ backend \in {"local", "s3"}
    /\ \E now \in Stamps : store = generate_flashcard_catalog(backend, EmptyStore, now)
    /\ db = {}
    /\ last = [request |-> [op |-> "startup"], response |-> [status |-> 200]]
    /\ calls = [w \in Workers |-> Idle]

\* update_flashcard up to the call of storage.save_flashcard: validation,
\* the lookup by ID, the removal of a renamed document's old file, and the
\* choice of filename and overwrite.
update_flashcard_lookup(w, flashcard_id, req) ==
    LET request == [flashcard_id |-> flashcard_id, op |-> "update",
                    old_id |-> req.old_id,
                    content_id |-> IF IsMap(yaml_safe_load(req.content))
                                   THEN Get(yaml_safe_load(req.content), "id", None)
                                   ELSE None,
                    content_kind |-> yaml_safe_load(req.content).k]
        Fail(status, detail) ==
            /\ calls' = [calls EXCEPT ![w] =
                            [filename |-> None, content |-> req.content,
                             request |-> request,
                             response |-> [filename |-> None, status |-> status,
                                           detail |-> detail],
                             is_new_document |-> FALSE,
                             pc |-> "done"]]
            /\ store' = store
    IN  /\ calls[w].pc = "idle"
        /\ IF ~VALID_ID_PATTERN(flashcard_id) THEN Fail(400, "InvalidId")
           ELSE IF yaml_safe_load(req.content).k = "error" THEN Fail(400, "InvalidYaml")
           ELSE IF ensure_card_ids_raises(yaml_safe_load(req.content))
           THEN Fail(500, "TypeError")
           ELSE
           LET data == ensure_card_ids(yaml_safe_load(req.content))
               validation == validate_flashcard_yaml(data)
           IN  IF ~validation.valid THEN Fail(400, "ValidationFailed")
               ELSE IF Get(data, "id", None) # flashcard_id THEN Fail(400, "IdMismatch")
               ELSE
               LET rename == req.old_id \notin {None, ""} /\ req.old_id # flashcard_id
               IN  \E found \in find_flashcard_filename_by_id(backend, store,
                                   IF rename THEN req.old_id ELSE flashcard_id) :
                     LET is_new_document == rename \/ found = None
                     IN  /\ store' = IF rename /\ found # None
                                     THEN delete_flashcard_by_filename(backend, store,
                                                                       found).store
                                     ELSE store
                         /\ calls' = [calls EXCEPT ![w] =
                               [filename |-> IF is_new_document
                                             THEN (IF Strip(req.filename) # ""
                                                   THEN Strip(req.filename)
                                                   ELSE flashcard_id \o ".yml")
                                             ELSE found,
                                content |-> yaml_dump(data),
                                overwrite |-> ~is_new_document,
                                request |-> request,
                                is_new_document |-> is_new_document,
                                pc |-> "save"]]
        /\ UNCHANGED <<backend, db, last>>

\* save_flashcard, first half: target_path.exists() (local), head_object
\* (S3); FileExistsError becomes the handler's 409.
save_flashcard_exists(w) ==
    /\ calls[w].pc = "save"
    /\ calls' = [calls EXCEPT ![w] =
                    IF ~calls[w].overwrite /\ calls[w].filename \in DOMAIN store
                    THEN [filename |-> calls[w].filename, content |-> calls[w].content,
                          request |-> calls[w].request,
                          response |-> [filename |-> calls[w].filename, status |-> 409,
                                        detail |-> "FileExistsError"],
                          is_new_document |-> calls[w].is_new_document,
                          pc |-> "done"]
                    ELSE [calls[w] EXCEPT !.pc = "write"]]
    /\ UNCHANGED <<backend, store, db, last>>

\* save_flashcard, second half: write_text (local), put_object (S3); the
\* handler then answers 200.
save_flashcard_write(w) ==
    /\ calls[w].pc = "write"
    /\ store' = Put(store, calls[w].filename, calls[w].content)
    /\ calls' = [calls EXCEPT ![w] =
                    [filename |-> calls[w].filename, content |-> calls[w].content,
                     request |-> calls[w].request,
                     response |-> [filename |-> calls[w].filename,
                                   status |-> 200,
                                   detail |-> IF calls[w].is_new_document
                                              THEN "created" ELSE "updated"],
                     is_new_document |-> calls[w].is_new_document,
                     pc |-> "done"]]
    /\ UNCHANGED <<backend, db, last>>

\* The response leaves the worker, which is free for the next request.
update_flashcard_return(w) ==
    /\ calls[w].pc = "done"
    /\ last' = [request |-> calls[w].request, response |-> calls[w].response]
    /\ calls' = [calls EXCEPT ![w] = Idle]
    /\ UNCHANGED <<backend, store, db>>

RaceLookup ==
    \E w \in Workers, content \in RaceTexts \cup {InvalidText}, flashcard_id \in Ids,
       filename \in RaceFilenames, old_id \in RaceOldIds :
        /\ content = InvalidText => old_id = None /\ filename = ""
        /\ old_id # None => filename = ""
        /\ update_flashcard_lookup(w, flashcard_id,
               [filename |-> filename, content |-> content, old_id |-> old_id])

RaceExists == \E w \in Workers : save_flashcard_exists(w)

RaceWrite == \E w \in Workers : save_flashcard_write(w)

RaceReturn == \E w \in Workers : update_flashcard_return(w)

RaceNext == RaceLookup \/ RaceExists \/ RaceWrite \/ RaceReturn

SpecRace == RaceInit /\ [][RaceNext]_vars

\* Two requests of different workers that have both been answered, were
\* both creates of the same new ID and both called save without overwrite
\* on the same filename, which was free: one of them has created the file.
ConcurrentCreates(w1, w2) ==
    /\ w1 # w2
    /\ calls[w1].pc = "done" /\ calls[w2].pc = "done"
    /\ \E w \in {w1, w2} : calls[w].response.status = 200
    /\ calls[w1].is_new_document /\ calls[w2].is_new_document
    /\ calls[w1].request.old_id \in {None, ""} /\ calls[w2].request.old_id \in {None, ""}
    /\ calls[w1].request.flashcard_id = calls[w2].request.flashcard_id
    /\ calls[w1].filename = calls[w2].filename

\* C16: of two concurrent create requests for the same new ID on the same
\* filename exactly one save succeeds, the other observes AlreadyExists
\* (409), and the stored content is that of the request that succeeded.
C16_AsStated ==
    \A w1, w2 \in Workers :
        ConcurrentCreates(w1, w2)
        => \E win \in {w1, w2} :
             /\ calls[win].response.status = 200
             /\ \A lose \in {w1, w2} \ {win} : calls[lose].response.status = 409
             /\ store[calls[win].filename] = calls[win].content


(***************************************************************************)
(* generate_card_id as a function of its arguments                         *)
(***************************************************************************)

CardSetIds ==
    {"ab", "123-test", "three-states", "test-set", "a", "", "A-b_C", "--",
     "ABCD", "x9", "Q", "a b"}

MaxCardIndex == 999

CardIndexes == {0, 1, 4, 8, 9, 10, 98, 99, 998, MaxCardIndex}

\* One evaluation of generate_card_id.
GenerateCardIdCall(cardset_id, card_index) ==
    [request |-> [cardset_id |-> cardset_id, card_index |-> card_index,
                  op |-> "generate_card_id"],
     response |-> [value |-> generate_card_id(cardset_id, card_index)]]

CardIdInit ==
    /\ backend = "local"
    /\ store = EmptyStore
    /\ db = {}
    /\ calls = NoCalls
    /\ last = [request |-> [op |-> "import"], response |-> [value |-> None]]

GenerateCardId ==
    /\ \E cardset_id \in CardSetIds, card_index \in CardIndexes :
          last' = GenerateCardIdCall(cardset_id, card_index)
    /\ UNCHANGED <<backend, store, db, calls>>

SpecCardId == CardIdInit /\ [][GenerateCardId]_vars

\* The positions of the alphanumeric characters of s.
AlnumPositions(s) == { p \in 1..Len(s) : CharAt(s, p) \in Lower \cup Upper \cup Digit }

\* The k-th character of the prefix the rule prescribes: the k-th
\* alphanumeric character of s in lower case, "x" when s has fewer.
PrefixChar(s, k) ==
    IF Cardinality(AlnumPositions(s)) < k THEN "x"
    ELSE LowerOf(CharAt(s, CHOOSE p \in AlnumPositions(s) :
                            Cardinality({ q \in AlnumPositions(s) : q < p }) = k - 1))

RECURSIVE DecimalValue(_)
\* The number a string of decimal digits denotes.
DecimalValue(s) ==
    IF Len(s) = 0 THEN 0
    ELSE 10 * DecimalValue(SubSeq(s, 1, Len(s) - 1))
         + (CHOOSE d \in 0..9 : CharAt("0123456789", d + 1) = CharAt(s, Len(s)))

\* C17: generate_card_id(set_id, i) is the first three alphanumeric
\* characters of set_id in lower case, right-padded with "x" to three,
\* followed by i+1 in decimal, zero-padded to three digits; ("ab", 0)
\* gives "abx001", ("123-test", 4) "123005", ("three-states", 0) "thr001".
C17_CardIdSynthesis ==
    /\ last.request.op = "generate_card_id"
       => LET value  == last.response.value
              number == SubSeq(value, 4, Len(value))
          IN  /\ \A k \in 1..3 : CharAt(value, k) = PrefixChar(last.request.cardset_id, k)
              /\ \A p \in 1..Len(number) : CharAt(number, p) \in Digit
              /\ DecimalValue(number) = last.request.card_index + 1
              /\ Len(number) >= 3
              /\ Len(number) > 3 => CharAt(number, 1) # "0"
    /\ generate_card_id("ab", 0) = "abx001"
    /\ generate_card_id("123-test", 4) = "123005"
    /\ generate_card_id("three-states", 0) = "thr001"

\* The padded case: a set ID with two alphanumeric characters.
C17_Witness ==
    /\ last.request.op = "generate_card_id"
    /\ last.request.cardset_id = "ab"
    /\ last.request.card_index = 0
    /\ last.response.value = "abx001"


(***************************************************************************)
(* Uploading the set "test-set"                                            *)
(***************************************************************************)

\* A set with id "test-set" and one single-choice card without an id.
TestSetText == ClientText("test-set", "q1")

UploadTexts == {TestSetText, ClientText("a", "q1")}

UploadIds == {"test-set", "a"}

UploadSets == UploadFlashcardOver(UploadTexts)

GetUploaded == \E flashcard_id \in UploadIds : get_flashcard(flashcard_id, None)

DeleteUploaded ==
    \E flashcard_id \in UploadIds, now \in Stamps :
        delete_flashcard_handler(flashcard_id, now)

UploadNext == UploadSets \/ GetUploaded \/ DeleteUploaded

SpecUpload == Init /\ [][UploadNext]_vars

\* The last request was a successful upload of the set "test-set".
UploadedTestSet ==
    /\ last.request.op = "upload"
    /\ last.request.flashcard_id = "test-set"
    /\ last.response.status = 200

\* The cards of a document's parsed content.
CardsOf(document) == yaml_safe_load(document.content).m["flashcards"].items

\* C18 as stated: after the upload of "test-set" with one single-choice
\* card without id, get_by_id("test-set") returns a document with exactly
\* one card, whose id is "tesx001".
C18_AsStated ==
    UploadedTestSet
    => \A document \in get_by_id(backend, store, "test-set") :
          /\ document # NoDoc
          /\ Len(CardsOf(document)) = 1
          /\ CardsOf(document)[1].m["id"] = "tesx001"

\* C18: after the upload of "test-set" with one single-choice card without
\* id, get_by_id("test-set") returns a document with exactly one card,
\* whose id is "tes001": the first three alphanumeric characters of
\* "test-set" need no padding.
C18_UploadedCardId ==
    UploadedTestSet
    => \A document \in get_by_id(backend, store, "test-set") :
          /\ document # NoDoc
          /\ Len(CardsOf(document)) = 1
          /\ Has(CardsOf(document)[1], "id")
          /\ CardsOf(document)[1].m["id"] = "tes001"
          /\ CardsOf(document)[1].m["type"] = "single"

\* The set has just been created by an upload and is stored.
C18_Witness ==
    /\ UploadedTestSet
    /\ last.response.detail = "created"
    /\ \E document \in get_by_id(backend, store, "test-set") : document # NoDoc


(***************************************************************************)
(* Users creating their own sets                                           *)
(***************************************************************************)

\* User identifiers; two of them agree in their first eight characters.
UserIds == {"u1", "abcdefgh1", "abcdefgh2"}

UserTexts == {ClientText("a", "q1"), ClientText("b", "q1")}

Visibilities == {"private", "global", "public"}

CreateByUsers ==
    \E user_id \in UserIds, yaml_content \in UserTexts, visibility \in Visibilities :
        create_user_flashcard(user_id, [visibility |-> visibility,
                                        yaml_content |-> yaml_content])

GetByUsers ==
    \E user_id \in UserIds, owner \in UserIds, slug \in Ids :
        get_flashcard(generate_user_flashcard_id(owner, slug), user_id)

UsersNext == CreateByUsers \/ GetByUsers

SpecUsers == Init /\ [][UsersNext]_vars

\* C19: the flashcard ID generated for a user's set is no other user's: a
\* create request is never answered with (and never refused because of)
\* a flashcard ID under which another user owns a set.
C19_AsStated ==
    last.request.op = "create_user" /\ last.response.flashcard_id # None
    => \A row \in db : row.flashcard_id = last.response.flashcard_id
                       => row.owner_id = last.request.user


(***************************************************************************)
(* validate_flashcard_yaml as a function of the parsed content             *)
(***************************************************************************)

CardOf(m) == [k |-> "map", m |-> m]

\* Cards that keep every rule, and cards that break one rule or several.
ValidationCards ==
    { CardOf([question |-> "q", type |-> "single", answer |-> "x"]),
      CardOf([id |-> "c1", question |-> "q", type |-> "multiple",
              answers |-> List(<<"x", "y">>)]),
      CardOf([type |-> "single", answer |-> "x"]),
      CardOf([question |-> "q"]),
      CardOf([question |-> "q", type |-> "single"]),
      CardOf([question |-> "q", type |-> "multiple"]),
      CardOf([question |-> "q", type |-> "multiple", answers |-> [k |-> "int"]]),
      CardOf([question |-> "q", type |-> "essay"]),
      CardOf([type |-> "multiple"]),
      CardOf([id |-> "c1"]),
      [k |-> "int"] }

MaxCards == 2

CardLists == UNION { [1..n -> ValidationCards] : n \in 0..MaxCards }

MissingFields == { {}, {"author"}, {"author", "title"}, {"language"}, {"flashcards", "id"} }

Languages == {"en", "xx"}

\* A set value without the fields of missing.
ValidationData(missing, language, cards) ==
    LET base == SetValue("a", "q1").m
    IN  [k |-> "map",
         m |-> [f \in DOMAIN base \ missing |->
                   IF f = "language" THEN language
                   ELSE IF f = "flashcards" THEN List(cards)
                   ELSE base[f]]]

\* A handler holds the parsed content it is about to validate.
ValidationInit ==
    /\ backend = "local"
    /\ store = EmptyStore
    /\ db = {}
    /\ \E missing \in MissingFields, language \in Languages, cards \in CardLists :
          calls = << ValidationData(missing, language, cards) >>
    /\ last = [request |-> [op |-> "import"], response |-> [valid |-> None]]

ValidateFlashcardYaml ==
    /\ calls # NoCalls
    /\ last' = [request |-> [data |-> Head(calls), op |-> "validate_flashcard_yaml"],
                response |-> validate_flashcard_yaml(Head(calls))]
    /\ calls' = Tail(calls)
    /\ UNCHANGED <<backend, store, db>>

SpecValidate == ValidationInit /\ [][ValidateFlashcardYaml]_vars

CardRules ==
    {"must be an object", "missing question", "missing type", "single missing answer",
     "multiple missing answers", "answers must be a list", "invalid type"}

\* Card breaks rule.
Violates(card, rule) ==
    IF ~IsMap(card) THEN rule = "must be an object"
    ELSE LET has(f) == f \in DOMAIN card.m
             type   == IF has("type") THEN card.m["type"] ELSE None
         IN  \/ rule = "missing question" /\ ~has("question")
             \/ rule = "missing type" /\ ~has("type")
             \/ rule = "single missing answer" /\ type = "single" /\ ~has("answer")
             \/ rule = "multiple missing answers" /\ type = "multiple" /\ ~has("answers")
             \/ /\ rule = "answers must be a list"
                /\ type = "multiple" /\ has("answers")
                /\ card.m["answers"].k \in {"map", "null", "int"}
             \/ rule = "invalid type" /\ has("type") /\ type \notin {"single", "multiple"}

\* Every rule the data of the model can break, with what breaks it.
RuleViolations(data) ==
    { <<"root", 0, "missing " \o required_fields[n]>> :
         n \in { j \in 1..Len(required_fields) : required_fields[j] \notin DOMAIN data.m } }
    \cup
    (IF "flashcards" \in DOMAIN data.m
     THEN { <<"card", i, rule>> :
              <<i, rule>> \in { c \in (1..Len(data.m["flashcards"].items)) \X CardRules :
                                  Violates(data.m["flashcards"].items[c[1]], c[2]) } }
     ELSE {})

\* C20: validate_flashcard_yaml is valid exactly when its error list is
\* empty; the error list holds a message for every violated rule at once
\* (every missing required field, and for every card a missing question, a
\* missing type, single without answer, multiple without answers or with
\* answers that are no list, a type that is neither) and nothing else; an
\* unknown language adds a warning and no error.
C20_CollectsEveryError ==
    last.request.op = "validate_flashcard_yaml"
    => LET data     == last.request.data
           errors   == last.response.errors
           warnings == last.response.warnings
           language == <<"root", 0, "language not in common list">>
       IN  /\ last.response.valid <=> errors = <<>>
           /\ { errors[n] : n \in 1..Len(errors) } = RuleViolations(data)
           /\ \A n \in 1..Len(errors) : errors[n] # language
           /\ ("language" \in DOMAIN data.m /\ data.m["language"] = "xx")
              => \E n \in 1..Len(warnings) : warnings[n] = language

\* A document that breaks a rule at the top level and rules in both of its
\* cards, two of them in one card.
C20_Witness ==
    /\ last.request.op = "validate_flashcard_yaml"
    /\ ~last.response.valid
    /\ <<"root", 0, "missing author">> \in
          { last.response.errors[n] : n \in 1..Len(last.response.errors) }
    /\ <<"card", 1, "missing question">> \in
          { last.response.errors[n] : n \in 1..Len(last.response.errors) }
    /\ <<"card", 1, "multiple missing answers">> \in
          { last.response.errors[n] : n \in 1..Len(last.response.errors) }
    /\ <<"card", 2, "invalid type">> \in
          { last.response.errors[n] : n \in 1..Len(last.response.errors) }


(***************************************************************************)
(* ensure_card_ids as a function of the parsed content                     *)
(***************************************************************************)

\* Cards without an id, with an empty id, with an id of the generated form
\* and with another id, and a card that is no mapping.
IdCards ==
    { CardOf([question |-> "q", type |-> "single", answer |-> "x"]),
      CardOf([id |-> "", question |-> "q", type |-> "single", answer |-> "x"]),
      CardOf([id |-> "axx001", question |-> "q", type |-> "single", answer |-> "x"]),
      CardOf([id |-> "axx002", question |-> "q", type |-> "single", answer |-> "x"]),
      CardOf([id |-> "c1", question |-> "q", type |-> "single", answer |-> "x"]),
      [k |-> "int"] }

IdCardLists == UNION { [1..n -> IdCards] : n \in 0..MaxCards }

IdSetIds == {"a", "test-set"}

\* A set value with the given cards.
IdData(id, cards) ==
    [SetValue(id, "q1") EXCEPT !.m["flashcards"] = List(cards)]

\* A handler holds the parsed content whose cards get their ids.
EnsureInit ==
    /\ backend = "local"
    /\ store = EmptyStore
    /\ db = {}
    /\ \E id \in IdSetIds, cards \in IdCardLists : calls = << IdData(id, cards) >>
    /\ last = [request |-> [op |-> "import"], response |-> [data |-> None]]

EnsureCardIds ==
    /\ calls # NoCalls
    /\ last' = [request |-> [data |-> Head(calls), op |-> "ensure_card_ids"],
                response |-> [data |-> ensure_card_ids(Head(calls))]]
    /\ calls' = Tail(calls)
    /\ UNCHANGED <<backend, store, db>>

SpecEnsure == EnsureInit /\ [][EnsureCardIds]_vars

\* C21: after ensure_card_ids every card that is a mapping has a non-empty
\* id, every card that had a non-empty id keeps it, and the ids of the cards
\* of the set are pairwise distinct.
C21_AsStated ==
    last.request.op = "ensure_card_ids"
    => LET before == last.request.data.m["flashcards"].items
           after  == last.response.data.m["flashcards"].items
           cards  == { i \in 1..Len(after) : IsMap(after[i]) }
       IN  /\ Len(after) = Len(before)
           /\ \A i \in cards : Has(after[i], "id") /\ after[i].m["id"] # ""
           /\ \A i \in cards : (Has(before[i], "id") /\ before[i].m["id"] # "")
                               => after[i].m["id"] = before[i].m["id"]
           /\ \A i, j \in cards : i # j => after[i].m["id"] # after[j].m["id"]


(***************************************************************************)
(* Users changing and deleting their own sets                              *)
(***************************************************************************)

\* LocalFlashcardStorage.delete_user_flashcard: unlink each of the user's
\* <id>.yaml and <id>.yml that exists, and report those.
Local_delete_user_flashcard(st, user_id, flashcard_id) ==
    LET yaml == UserKey(user_id, flashcard_id \o ".yaml")
        yml  == UserKey(user_id, flashcard_id \o ".yml")
        deleted == (IF yaml \in DOMAIN st THEN <<flashcard_id \o ".yaml">> ELSE <<>>)
                   \o (IF yml \in DOMAIN st THEN <<flashcard_id \o ".yml">> ELSE <<>>)
    IN  Outcome(None, deleted, Remove(Remove(st, yaml), yml))

\* S3FlashcardStorage.delete_user_flashcard: delete_object on both keys,
\* which succeeds whether or not the key exists.
S3_delete_user_flashcard(st, user_id, flashcard_id) ==
    Outcome(None, <<flashcard_id \o ".yaml", flashcard_id \o ".yml">>,
            Remove(Remove(st, UserKey(user_id, flashcard_id \o ".yaml")),
                   UserKey(user_id, flashcard_id \o ".yml")))

delete_user_flashcard(be, st, user_id, flashcard_id) ==
    IF be = "s3" THEN S3_delete_user_flashcard(st, user_id, flashcard_id)
    ELSE Local_delete_user_flashcard(st, user_id, flashcard_id)

\* The attributes of auth.AuthenticatedUser (sub is a property).
AuthenticatedUser == {"user_id", "email", "metadata", "sub"}

\* 'flashcard_row["owner_id"] != user.user_id and not user.is_admin': what
\* the ownership check of the three handlers ends with.  The right operand
\* is evaluated for every caller who is not the owner, and reads an
\* attribute AuthenticatedUser does not have.
ownership_check(owner_id, user_id) ==
    IF owner_id = user_id THEN "allowed"
    ELSE IF "is_admin" \notin AuthenticatedUser THEN "AttributeError"
    ELSE "forbidden"

\* The row of user_flashcards with the flashcard ID (the set of them).
RowsOf(rows, flashcard_id) == { r \in rows : r.flashcard_id = flashcard_id }

\* PUT /users/me/flashcards/{flashcard_id} by the authenticated user
\* user_id; req = [yaml_content, visibility]; update_fails: the UPDATE of
\* user_flashcards raises.  The row's filename is the one the create wrote.
update_user_flashcard(flashcard_id, user_id, req, update_fails) ==
    LET request == [flashcard_id |-> flashcard_id, user |-> user_id,
                    op |-> "update_user", visibility |-> req.visibility]
        Reply(status, st, rows) == Respond(request, [status |-> status], st, rows)
    IN  IF ~is_user_flashcard(flashcard_id) THEN Reply(400, store, db)
        ELSE IF RowsOf(db, flashcard_id) = {} THEN Reply(404, store, db)
        ELSE
        LET flashcard_row == CHOOSE r \in RowsOf(db, flashcard_id) : TRUE
            check == ownership_check(flashcard_row.owner_id, user_id)
            flashcard_data == yaml_safe_load(req.yaml_content)
        IN  IF check = "forbidden" THEN Reply(403, store, db)
            ELSE IF check = "AttributeError" THEN Reply(500, store, db)
            ELSE IF flashcard_data.k = "error" THEN Reply(400, store, db)
            ELSE IF ~IsMap(flashcard_data) \/ DOMAIN flashcard_data.m = {}
            THEN Reply(400, store, db)
            ELSE
            LET saved == save_user_flashcard(backend, store, flashcard_row.owner_id,
                                             flashcard_id \o ".yaml", req.yaml_content, TRUE)
            IN  IF req.visibility \notin {None, ""}
                   /\ req.visibility \notin {"global", "private"}
                THEN Reply(400, saved.store, db)
                ELSE IF update_fails THEN Reply(500, saved.store, db)
                ELSE Reply(200, saved.store,
                           (db \ {flashcard_row})
                           \cup {IF req.visibility \in {None, ""} THEN flashcard_row
                                 ELSE [flashcard_row EXCEPT !.visibility = req.visibility]})

\* DELETE /users/me/flashcards/{flashcard_id}; delete_fails: the DELETE
\* from user_flashcards raises.
delete_user_flashcard_handler(flashcard_id, user_id, delete_fails) ==
    LET request == [flashcard_id |-> flashcard_id, user |-> user_id,
                    op |-> "delete_user", visibility |-> None]
        Reply(status, st, rows) == Respond(request, [status |-> status], st, rows)
    IN  IF ~is_user_flashcard(flashcard_id) THEN Reply(400, store, db)
        ELSE IF RowsOf(db, flashcard_id) = {} THEN Reply(404, store, db)
        ELSE
        LET flashcard_row == CHOOSE r \in RowsOf(db, flashcard_id) : TRUE
            check == ownership_check(flashcard_row.owner_id, user_id)
            removed == delete_user_flashcard(backend, store, flashcard_row.owner_id,
                                             flashcard_id)
        IN  IF check = "forbidden" THEN Reply(403, store, db)
            ELSE IF check = "AttributeError" THEN Reply(500, store, db)
            ELSE IF delete_fails THEN Reply(500, removed.store, db)
            ELSE Reply(200, removed.store, db \ {flashcard_row})

\* PATCH /users/me/flashcards/{flashcard_id}/visibility
update_flashcard_visibility(flashcard_id, user_id, req, update_fails) ==
    LET request == [flashcard_id |-> flashcard_id, user |-> user_id,
                    op |-> "visibility", visibility |-> req.visibility]
        Reply(status, rows) == Respond(request, [status |-> status], store, rows)
    IN  IF ~is_user_flashcard(flashcard_id) THEN Reply(400, db)
        ELSE IF req.visibility \notin {"global", "private"} THEN Reply(400, db)
        ELSE IF RowsOf(db, flashcard_id) = {} THEN Reply(404, db)
        ELSE
        LET flashcard_row == CHOOSE r \in RowsOf(db, flashcard_id) : TRUE
            check == ownership_check(flashcard_row.owner_id, user_id)
        IN  IF check = "forbidden" THEN Reply(403, db)
            ELSE IF check = "AttributeError" THEN Reply(500, db)
            ELSE IF update_fails THEN Reply(500, db)
            ELSE Reply(200, (db \ {flashcard_row})
                            \cup {[flashcard_row EXCEPT !.visibility = req.visibility]})

\* The users of the service; Admins have is_admin in user_profiles.
Owners == {"u1", "u2", "adm"}

Admins == {"adm"}

OwnerTexts == { ClientText("a", q) : q \in Questions }

\* The user flashcard IDs the requests name, and an ID of a global set.
OwnerSetIds == { generate_user_flashcard_id(u, "a") : u \in {"u1", "u2"} } \cup {"a"}

CreateOwned ==
    \E user_id \in {"u1", "u2"}, visibility \in {"private", "global"} :
        create_user_flashcard(user_id, [visibility |-> visibility,
                                        yaml_content |-> ClientText("a", "q1")])

UpdateOwned ==
    \E user_id \in Owners, flashcard_id \in OwnerSetIds, yaml_content \in OwnerTexts,
       visibility \in {None, "global", "public"} :
        update_user_flashcard(flashcard_id, user_id,
                              [visibility |-> visibility, yaml_content |-> yaml_content],
                              FALSE)

DeleteOwned ==
    \E user_id \in Owners, flashcard_id \in OwnerSetIds :
        delete_user_flashcard_handler(flashcard_id, user_id, FALSE)

ChangeVisibility ==
    \E user_id \in Owners, flashcard_id \in OwnerSetIds,
       visibility \in {"private", "global", "public"} :
        update_flashcard_visibility(flashcard_id, user_id, [visibility |-> visibility],
                                    FALSE)

OwnersNext == CreateOwned \/ UpdateOwned \/ DeleteOwned \/ ChangeVisibility

SpecOwners == Init /\ [][OwnersNext]_vars

\* C22: an update, delete or visibility change of a user flashcard by an
\* authenticated user who is neither its owner nor an admin is answered 403
\* and changes neither the stored documents nor the metadata records; from
\* the owner or an admin the request is not refused as unauthorized or by
\* a server error.  (Requests with a well-formed visibility.)
C22_AsStated ==
    [][ (/\ last'.request.op \in {"update_user", "delete_user", "visibility"}
         /\ last'.request.visibility \in {None, "private", "global"}
         /\ RowsOf(db, last'.request.flashcard_id) # {})
        => LET owner_id == (CHOOSE r \in RowsOf(db, last'.request.flashcard_id) :
                               TRUE).owner_id
               user_id  == last'.request.user
           IN  IF user_id # owner_id /\ user_id \notin Admins
               THEN /\ last'.response.status = 403
                    /\ store' = store
                    /\ db' = db
               ELSE last'.response.status \notin {403, 500} ]_vars


\* What a listing shows of its documents.
Listed(documents) == { <<d.filename, d.content>> : d \in documents }

\* C23: a document saved in a per-user namespace (users/<user_id>/) is
\* never returned by the global list_flashcards, and the global listing of
\* the same stored content is the same on both backends.
C23_AsStated ==
    /\ \A document \in list_flashcards(backend, store) :
          ~StartsWith(document.key, "users/")
    /\ Listed(Local_list_flashcards(store)) = Listed(S3_list_flashcards(store))


\* The metadata records of the private user flashcards.
PrivateRows == { r \in db : r.visibility = "private" }

\* The keys under which the document of a metadata record is stored.
KeysOf(r) == { UserKey(r.owner_id, r.flashcard_id \o ext) : ext \in {".yaml", ".yml"} }

\* C24: a get by a caller who is not the owner of a private user flashcard
\* (or carries no token) never returns that flashcard's document.
C24_AsStated ==
    (last.request.op = "get" /\ last.response.status = 200)
    => \A r \in PrivateRows :
          last.request.user # r.owner_id => last.response.document.key \notin KeysOf(r)


\* C25: no two flashcard documents of the global namespace declare the
\* same id, after any sequence of upload, update, rename and delete
\* requests on a namespace that started without such a pair.
C25_AsStated ==
    \A d, e \in GlobalSets(backend, store) :
        (d # e /\ DeclaredId(d) # None) => DeclaredId(d) # DeclaredId(e)


\* C26: an upload of a set declaring id X leaves every flashcard document
\* of the global namespace whose declared id differs from X where it is,
\* with the content it has.
C26_AsStated ==
    [][ last'.request.op = "upload"
        => \A d \in GlobalSets(backend, store) :
              DeclaredId(d) # last'.request.flashcard_id
              => /\ d.key \in DOMAIN store'
                 /\ store'[d.key] = store[d.key] ]_vars


\* C27: an update that carries a previous id different from the path id
\* and ends in an error at the persist step leaves every document that
\* declares the previous id in the store, with the content it has.
C27_AsStated ==
    [][ ( /\ last'.request.op = "update"
          /\ last'.request.old_id \notin {None, "", last'.request.flashcard_id}
          /\ last'.response.status \in {409, 500}
          /\ last'.response.detail = "FileExistsError" )
        => \A d \in GlobalSets(backend, store) :
              DeclaredId(d) = last'.request.old_id
              => /\ d.key \in DOMAIN store'
                 /\ store'[d.key] = store[d.key] ]_vars


\* C28: right after an update or an upload of a set with id X is answered
\* with success, every document get_by_id(X) can return declares id X and
\* has the content the request wrote.
C28_AsStated ==
    (last.request.op \in {"update", "upload"} /\ last.response.status = 200)
    => \A d \in get_by_id(backend, store, last.request.flashcard_id) :
          /\ d # NoDoc
          /\ DeclaredId(d) = last.request.flashcard_id
          /\ d.content = store[last.response.filename]


\* C29: right after a delete of the global id X is answered with success,
\* get_by_id(X) returns no document.
C29_AsStated ==
    (last.request.op = "delete" /\ last.response.status = 200)
    => get_by_id(backend, store, last.request.flashcard_id) = {NoDoc}


(***************************************************************************)
(* C30  User flashcard storage and metadata stay paired.                   *)
(***************************************************************************)

\* The requests for user flashcards, each with the outcome of its database
\* statement (the second of the handler's two steps) left open.
CreatePaired ==
    \E user_id \in {"u1", "u2"}, yaml_content \in OwnerTexts, insert_fails \in BOOLEAN :
        create_user_flashcard_insert(user_id, [visibility |-> "private",
                                               yaml_content |-> yaml_content],
                                     insert_fails)

UpdatePaired ==
    \E user_id \in {"u1", "u2"}, yaml_content \in OwnerTexts, update_fails \in BOOLEAN :
        update_user_flashcard(generate_user_flashcard_id(user_id, "a"), user_id,
                              [visibility |-> None, yaml_content |-> yaml_content],
                              update_fails)

DeletePaired ==
    \E user_id \in {"u1", "u2"}, delete_fails \in BOOLEAN :
        delete_user_flashcard_handler(generate_user_flashcard_id(user_id, "a"), user_id,
                                      delete_fails)

PairedNext == CreatePaired \/ UpdatePaired \/ DeletePaired

SpecPaired == Init /\ [][PairedNext]_vars

\* The keys of the user documents in the store.
UserDocumentKeys == { k \in DOMAIN store : StartsWith(k, "users/") }

\* C30: after any sequence of create, update and delete requests for user
\* flashcards, a user document is in the store if and only if its metadata
\* record is in user_flashcards.
C30_AsStated ==
    /\ \A k \in UserDocumentKeys : \E r \in db : k \in KeysOf(r)
    /\ \A r \in db : KeysOf(r) \cap UserDocumentKeys # {}

====
